---- MODULE Spec2Model ----
(***************************************************************************)
(* Model of the dataset handlers of db_hand.  Every tabular handler is a   *)
(* straight-line read_all: read the source file, drop rows, select and     *)
(* reorder columns, rescale all columns but the last, return the table.    *)
(* The model runs one call of one handler on one source file, one action   *)
(* per phase.  pandas, numpy and sklearn calls are modelled by what they   *)
(* do to the table, at the line of the handler that makes the call.        *)
(***************************************************************************)
EXTENDS Integers, Sequences, FiniteSets, TLC

\* ------------------------------------------------------------------ bounds
\* Largest number of data rows of a source file.
MaxRows == 3
\* Distance between the field values of consecutive row seeds.
Stride == 5

\* The numeric fields of a row are computed from the row's seed: a low, a
\* middle and a high row.
Seeds == {0, 1, 2}

\* ------------------------------------------------------------- arithmetic
Abs(x) == IF x < 0 THEN -x ELSE x

Sgn(x) == IF x < 0 THEN -1 ELSE IF x > 0 THEN 1 ELSE 0

RECURSIVE Gcd(_, _)
Gcd(a, b) == IF b = 0 THEN a ELSE Gcd(b, a % b)

RECURSIVE Pow(_, _)
Pow(b, e) == IF e = 0 THEN 1 ELSE b * Pow(b, e - 1)

RECURSIVE Log2Floor(_)
Log2Floor(n) == IF n <= 1 THEN 0 ELSE 1 + Log2Floor(n \div 2)

IsPow2(n) == n >= 1 /\ Pow(2, Log2Floor(n)) = n

RECURSIVE SumUpTo(_, _)
SumUpTo(s, i) == IF i = 0 THEN 0 ELSE SumUpTo(s, i - 1) + s[i]

SumSeq(s) == SumUpTo(s, Len(s))

\* list.index(x) counted from 1: the first position that holds x; 0 when x
\* is not in the list.
IndexOf(s, x) ==
    LET hits == {i \in DOMAIN s : s[i] = x}
    IN  IF hits = {} THEN 0 ELSE CHOOSE i \in hits : \A j \in hits : i <= j

Range(s) == {s[i] : i \in DOMAIN s}

\* The sequence f written out (a function over 1..n is a sequence).
AsSeq(f) == f \o <<>>

Last(s) == s[Len(s)]

Front(s) == SubSeq(s, 1, Len(s) - 1)

\* ------------------------------------------------------------------ cells
\* A cell of a table.  t = "str": the text s (a sequence of characters).
\* t = "num": the float n/d in lowest terms.  t = "log": the float
\* (n/d) * ln 2.  t = "root": the float n / sqrt(d).
Str(s) == [t |-> "str", n |-> 0, d |-> 1, s |-> s]

Frac(t, n, d) ==
    LET g == Gcd(Abs(n), Abs(d))
        k == IF d < 0 THEN -g ELSE g
    IN  [t |-> t, n |-> n \div k, d |-> d \div k, s |-> <<>>]

Num(n, d) == Frac("num", n, d)

IntCell(n) == Num(n, 1)

\* numpy's nan and inf: the floats 0/0 and x/0.
NaN == [t |-> "nan", n |-> 0, d |-> 1, s |-> <<>>]

Inf == [t |-> "inf", n |-> 0, d |-> 1, s |-> <<>>]

IsNumeric(c) == c.t \in {"num", "log", "ln", "root", "nan", "inf"}

IsFinite(c) == c.t \in {"num", "log", "ln", "root"}

\* ------------------------------------------------------------------- text
Digits == <<"0", "1", "2", "3", "4", "5", "6", "7", "8", "9">>

DigitSet == {"0", "1", "2", "3", "4", "5", "6", "7", "8", "9"}

IsDigit(c) == c \in DigitSet

DigitValue ==
    [c \in DigitSet |-> (CHOOSE i \in DOMAIN Digits : Digits[i] = c) - 1] @@ <<>>

DigitVal(c) == DigitValue[c]

RECURSIVE DigitsOf(_)
DigitsOf(n) ==
    IF n < 10 THEN <<Digits[n + 1]>>
    ELSE Append(DigitsOf(n \div 10), Digits[(n % 10) + 1])

\* The decimal text of an integer, as a source file holds it.
IntText(n) == IF n < 0 THEN <<"-">> \o DigitsOf(-n) ELSE DigitsOf(n)

RECURSIVE NatUpTo(_, _)
NatUpTo(s, i) == IF i = 0 THEN 0 ELSE 10 * NatUpTo(s, i - 1) + DigitVal(s[i])

\* int(text) of a run of digits.
NatVal(s) == NatUpTo(s, Len(s))

AllDigits(s) == s # <<>> /\ \A i \in DOMAIN s : IsDigit(s[i])

Unsigned(s) == IF s # <<>> /\ Head(s) = "-" THEN Tail(s) ELSE s

\* Position of the decimal point, 0 when there is none.
PointAt(s) == IndexOf(s, ".")

\* float(text): digits, an optional leading minus, an optional decimal point.
IsFloatText(s) ==
    LET u == Unsigned(s)
        p == PointAt(u)
    IN  IF p = 0 THEN AllDigits(u)
        ELSE /\ AllDigits(SubSeq(u, 1, p - 1))
             /\ AllDigits(SubSeq(u, p + 1, Len(u)))

FloatOf(s) ==
    LET u  == Unsigned(s)
        p  == PointAt(u)
        sg == IF s # <<>> /\ Head(s) = "-" THEN -1 ELSE 1
    IN  IF p = 0 THEN Num(sg * NatVal(u), 1)
        ELSE LET frac == SubSeq(u, p + 1, Len(u))
             IN  Num(sg * (NatVal(SubSeq(u, 1, p - 1)) * Pow(10, Len(frac)) + NatVal(frac)),
                     Pow(10, Len(frac)))

\* str.replace(',', '.')
ReplaceComma(s) == AsSeq([i \in DOMAIN s |-> IF s[i] = "," THEN "." ELSE s[i]])

\* ------------------------------------------------------------- DataFrames
\* A table: the column names and the rows, each row a sequence of cells.
DataFrame(cols, rows) == [cols |-> cols, rows |-> rows]

EmptyFrame == DataFrame(<<>>, <<>>)

NRows(df) == Len(df.rows)

NCols(df) == Len(df.cols)

\* The cells of column j, top to bottom.
ColumnAt(df, j) == AsSeq([i \in 1..NRows(df) |-> df.rows[i][j]])

\* data[names]: the columns named, in the order named.
SelectCols(df, names) ==
    LET at == AsSeq([k \in 1..Len(names) |-> IndexOf(df.cols, names[k])])
    IN  DataFrame(names,
                  AsSeq([i \in 1..NRows(df) |->
                            AsSeq([k \in 1..Len(names) |-> df.rows[i][at[k]]])]))

HasCols(df, names) == \A k \in DOMAIN names : IndexOf(df.cols, names[k]) # 0

\* data[mask]: the rows whose mask is true, in order.
RECURSIVE KeepRows(_, _, _)
KeepRows(rows, Keep(_), i) ==
    IF i > Len(rows) THEN <<>>
    ELSE (IF Keep(rows[i]) THEN <<rows[i]>> ELSE <<>>) \o KeepRows(rows, Keep, i + 1)

\* del data[name]
DelCol(df, name) ==
    LET j    == IndexOf(df.cols, name)
        Cut(s) == SubSeq(s, 1, j - 1) \o SubSeq(s, j + 1, Len(s))
    IN  DataFrame(Cut(df.cols), AsSeq([i \in 1..NRows(df) |-> Cut(df.rows[i])]))

\* astype(float) of one cell; text that is no number makes the call fail.
CanFloat(c) == IsNumeric(c) \/ IsFloatText(c.s)

AsFloat(c) == IF c.t = "str" THEN FloatOf(c.s) ELSE c

AllFloatable(df) ==
    \A i \in 1..NRows(df) : \A j \in 1..NCols(df) : CanFloat(df.rows[i][j])

AsTypeFloat(df) ==
    DataFrame(df.cols,
              AsSeq([i \in 1..NRows(df) |->
                        AsSeq([j \in 1..NCols(df) |-> AsFloat(df.rows[i][j])])]))

\* ---------------------------------------------------------------- scalers
RECURSIVE Lcm(_)
\* Least common denominator of a column of fractions.
Lcm(col) ==
    IF col = <<>> THEN 1
    ELSE LET r == Lcm(Tail(col)) IN (Head(col).d * r) \div Gcd(Head(col).d, r)

\* The column as integers over its common denominator.
Scaled(col) ==
    LET L == Lcm(col) IN AsSeq([i \in DOMAIN col |-> col[i].n * (L \div col[i].d)])

RECURSIVE MinOf(_)
MinOf(s) ==
    IF Len(s) = 1 THEN s[1]
    ELSE LET m == MinOf(Tail(s)) IN IF Head(s) < m THEN Head(s) ELSE m

RECURSIVE MaxOf(_)
MaxOf(s) ==
    IF Len(s) = 1 THEN s[1]
    ELSE LET m == MaxOf(Tail(s)) IN IF Head(s) > m THEN Head(s) ELSE m

\* A scale that is divided by as it is.
KeepZeros(r) == r

\* sklearn replaces a zero range or a zero standard deviation by 1 before it
\* divides.
HandleZeros(r) == IF r = 0 THEN 1 ELSE r

\* Float division as numpy does it: x/0 is inf, 0/0 is nan.
Quot(t, n, d) == IF d # 0 THEN Frac(t, n, d) ELSE IF n = 0 THEN NaN ELSE Inf

\* n / sqrt(d), for d >= 0.
OverRoot(n, d) ==
    IF d # 0 THEN [t |-> "root", n |-> n, d |-> d, s |-> <<>>]
    ELSE IF n = 0 THEN NaN ELSE Inf

\* MinMaxScaler with the default feature_range (0, 1).
MinMaxUnit(col) ==
    LET X  == Scaled(col)
        lo == MinOf(X)
        R  == HandleZeros(MaxOf(X) - lo)
    IN  AsSeq([i \in DOMAIN col |-> Quot("num", X[i] - lo, R)])

\* MinMaxScaler(feature_range=(-1, 1)).fit_transform of one column:
\* x * scale_ + min_, scale_ = 2 / range, min_ = -1 - min * scale_.
MinMaxColumn(col) ==
    LET X  == Scaled(col)
        lo == MinOf(X)
        R  == HandleZeros(MaxOf(X) - lo)
    IN  AsSeq([i \in DOMAIN col |-> Quot("num", 2 * (X[i] - lo) - R, R)])

\* Variance of the column times N * N (population convention, numpy's std).
VarN2(X) ==
    Len(X) * SumSeq(AsSeq([i \in DOMAIN X |-> X[i] * X[i]])) - SumSeq(X) * SumSeq(X)

\* scale(..., with_std=False) of one column: x - mean.
CentreColumn(col) ==
    LET X == Scaled(col)
        N == Len(X)
        S == SumSeq(X)
        L == Lcm(col)
    IN  AsSeq([i \in DOMAIN col |-> OverRoot(N * X[i] - S, N * N * L * L)])

\* sklearn.preprocessing.scale of one column: (x - mean) / std with the
\* population standard deviation, a zero deviation replaced by 1.  With N
\* rows of sum S the result is (N x - S) / sqrt(N^2 var).
ScaleColumn(col) ==
    LET X == Scaled(col)
        N == Len(X)
        S == SumSeq(X)
        D == HandleZeros(VarN2(X))
    IN  AsSeq([i \in DOMAIN col |-> OverRoot(N * X[i] - S, D)])

\* check_array: the block must hold at least one row and only numbers.
ScalerAccepts(df, names) ==
    /\ NRows(df) > 0
    /\ \A k \in DOMAIN names :
          LET j == IndexOf(df.cols, names[k])
          IN  \A i \in 1..NRows(df) : CanFloat(df.rows[i][j])

\* data[names] = F(data[names]), F applied column by column.
AssignScaled(df, names, F(_)) ==
    LET from == AsSeq([k \in DOMAIN names |-> IndexOf(df.cols, names[k])])
        out  == AsSeq([k \in DOMAIN names |->
                    F(AsSeq([i \in 1..NRows(df) |-> AsFloat(df.rows[i][from[k]])]))])
        at   == AsSeq([j \in 1..NCols(df) |-> IndexOf(names, df.cols[j])])
    IN  DataFrame(df.cols,
                  AsSeq([i \in 1..NRows(df) |->
                            AsSeq([j \in 1..NCols(df) |->
                                      IF at[j] = 0 THEN df.rows[i][j] ELSE out[at[j]][i]])]))

\* fit_transform / scale on every column, the last included.
ScaleEveryColumn(df, cs, mode) ==
    IF mode = "MinMax" THEN AssignScaled(df, cs, MinMaxColumn)
    ELSE IF mode = "MeanVar" THEN AssignScaled(df, cs, ScaleColumn)
    ELSE df

\* fit_transform / scale on every column but the last.
ApplyScaling(df, cs, mode) ==
    IF mode = "MinMax" THEN AssignScaled(df, Front(cs), MinMaxColumn)
    ELSE IF mode = "MeanVar" THEN AssignScaled(df, Front(cs), ScaleColumn)
    ELSE df

\* --------------------------------------------------------------- handlers
Ames        == "AmesHousing"
AutoMPG     == "AutoMPG"
California  == "CaliforniaHousing"
EUStock     == "EUStockExchange"
Ozone       == "Ozone"
AirQuality  == "UCI_AirQuality"
Appliances  == "UCI_AppliancesEnergyPrediction"
Boston      == "UCI_Boston"
Communities == "UCI_Communities"
Concrete    == "UCI_Concrete"
Istanbul    == "UCI_IstanbulStockExchange"
Parkinsons  == "UCI_Parkinsons"
SkillCraft  == "UCI_SkillCraft"
Wine        == "UCI_WineQuality"
Yacht       == "UCI_Yacht"

Handlers ==
    {Ames, AutoMPG, California, EUStock, Ozone, AirQuality, Appliances, Boston,
     Communities, Concrete, Istanbul, Parkinsons, SkillCraft, Wine, Yacht}

\* The handlers whose read_all has an `elif return_type == 'pd'` branch.
PdHandlers ==
    {EUStock, Ozone, AirQuality, Appliances, Communities, Concrete, Istanbul,
     Parkinsons, SkillCraft, Wine, Yacht}

\* handler_AmesHousing.__idx_numerical_features__
idx_numerical_features ==
    <<"MSSubClass", "LotFrontage", "LotArea", "OverallQual", "OverallCond",
      "YearBuilt", "YearRemodAdd", "MasVnrArea", "BsmtFinSF1", "BsmtFinSF2",
      "BsmtUnfSF", "TotalBsmtSF", "1stFlrSF", "2ndFlrSF", "GrLivArea",
      "LowQualFinSF", "BsmtFullBath", "BsmtHalfBath", "FullBath", "HalfBath",
      "BedroomAbvGr", "KitchenAbvGr", "TotRmsAbvGrd", "Fireplaces",
      "GarageYrBlt", "GarageCars", "GarageArea", "WoodDeckSF", "OpenPorchSF",
      "EnclosedPorch", "3SsnPorch", "ScreenPorch", "PoolArea", "MiscVal",
      "MoSold", "YrSold", "SalePrice">>

\* handler_AmesHousing.__idx_intuitive_features__
idx_intuitive_features ==
    <<"LotArea", "OverallQual", "OverallCond", "YearBuilt", "TotalBsmtSF",
      "GrLivArea", "GarageArea", "SalePrice">>

\* The outlier threshold of handler_AmesHousing.read_all.
GrLivAreaLimit == 4000

\* handler_AutoMPG.read_all: the names given to read_table.
AutoMPG_names ==
    <<"1cylinders", "2displacement", "3horsepower", "4weight", "5acceleration",
      "6modelyear", "7origin", "8mpg">>

\* handler_UCI_AirQuality.read_all: usecols, nrows and the columns whose
\* fields are comma-decimal text.
AirQuality_usecols ==
    <<"CO(GT)", "PT08.S1(CO)", "C6H6(GT)", "PT08.S2(NMHC)", "NOx(GT)",
      "PT08.S3(NOx)", "NO2(GT)", "PT08.S4(NO2)", "PT08.S5(O3)", "T", "RH", "AH">>

AirQuality_nrows == 9357

AirQuality_comma_cols == {"CO(GT)", "C6H6(GT)", "T", "RH", "AH"}

\* The missing-value tag of the air quality file.
MissingTag == -200

\* handler_Ozone.__NAN_rows__: the file lines read_csv skips.
NAN_rows ==
    {5, 6, 10, 11, 25, 26, 27, 32, 33, 34, 35, 36, 37, 39, 42, 43, 45, 46, 52, 53,
     54, 55, 56, 57, 58, 59, 60, 61, 65, 72, 75, 83, 84, 96, 97, 98, 102, 103,
     107, 115, 119, 150}

Ozone_cols == <<"Solar.R", "Wind", "Temp", "Ozone">>

EUStock_cols == <<"DAX", "SMI", "CAC", "FTSE">>

\* handler_UCI_Parkinsons.__column_names__
column_names ==
    <<"subject_nr", "age", "sex", "test_time", "motor_UPDRS", "total_UPDRS",
      "Jitter1", "Jitter2", "Jitter3", "Jitter4", "Jitter5", "Shimmer1",
      "Shimmer2", "Shimmer3", "Shimmer4", "Shimmer5", "Shimmer6",
      "NHR", "HNR", "RPDE", "DFA", "PPE">>

\* handler_UCI_SkillCraft.__exclude_features__
exclude_features == <<"GameID", "LeagueIndex", "TotalHours">>

SkillCraft_missing_cols == <<"TotalHours", "HoursPerWeek", "Age">>

\* The names of the columns of handler_CaliforniaHousing's adjusted table.
California_adjusted ==
    <<"1longitude", "2latitude", "3lnage", "4lnroomsbypop", "5lnbedroomsbypop",
      "6lnpopbyhouseholds", "7lnHouseholds", "8income", "9housevalue">>

\* Number of feature columns of sklearn's load_boston()['data'].
BostonFeatures == 13

\* ------------------------------------------------------------ source files
\* The header line of each handler's source file (the attribute lists of the
\* handlers' module docstrings).
Header(h) ==
    CASE h = Ames ->
           <<"Id", "MSSubClass", "MSZoning">> \o SubSeq(idx_numerical_features, 2, 36)
              \o <<"SaleType", "SaleCondition", "SalePrice">>
      [] h = AutoMPG -> <<>>
      [] h = California ->
           <<"longitude", "latitude", "housingMedianAge", "totalRooms",
             "totalBedrooms", "population", "households", "medianIncome",
             "medianHouseValue">>
      [] h = EUStock -> <<"Unnamed: 0", "DAX", "SMI", "CAC", "FTSE">>
      [] h = Ozone -> <<"Ozone", "Solar.R", "Wind", "Temp", "Month", "Day">>
      [] h = AirQuality ->
           <<"Date", "Time", "CO(GT)", "PT08.S1(CO)", "NMHC(GT)", "C6H6(GT)",
             "PT08.S2(NMHC)", "NOx(GT)", "PT08.S3(NOx)", "NO2(GT)", "PT08.S4(NO2)",
             "PT08.S5(O3)", "T", "RH", "AH">>
      [] h = Appliances ->
           <<"date", "Appliances", "lights", "T1", "RH_1", "T2", "RH_2", "T3", "RH_3",
             "T4", "RH_4", "T5", "RH_5", "T6", "RH_6", "T7", "RH_7", "T8", "RH_8",
             "T9", "RH_9", "T_out", "Press_mm_hg", "RH_out", "Windspeed",
             "Visibility", "Tdewpoint", "rv1", "rv2">>
      [] h = Boston ->
           <<"CRIM", "ZN", "INDUS", "CHAS", "NOX", "RM", "AGE", "DIS", "RAD", "TAX",
             "PTRATIO", "B", "LSTAT", "MEDV">>
      [] h = Communities ->
           <<"population", "householdsize", "medIncome", "ViolentCrimesPerPop",
             "nonViolPerPop">>
      [] h = Concrete ->
           <<"Cement", "Blast Furnace Slag", "Fly Ash", "Water", "Superplasticizer",
             "Coarse Aggregate", "Fine Aggregate", "Age",
             "Concrete compressive strength">>
      [] h = Istanbul ->
           <<"date", "ISE", "ISE.1", "SP", "DAX", "FTSE", "NIKKEI", "BOVESPA", "EU",
             "EM">>
      [] h = Parkinsons ->
           <<"subject#", "age", "sex", "test_time", "motor_UPDRS", "total_UPDRS",
             "Jitter(%)", "Jitter(Abs)", "Jitter:RAP", "Jitter:PPQ5", "Jitter:DDP",
             "Shimmer", "Shimmer(dB)", "Shimmer:APQ3", "Shimmer:APQ5",
             "Shimmer:APQ11", "Shimmer:DDA", "NHR", "HNR", "RPDE", "DFA", "PPE">>
      [] h = SkillCraft ->
           <<"GameID", "LeagueIndex", "Age", "HoursPerWeek", "TotalHours", "APM",
             "SelectByHotkeys", "AssignToHotkeys", "UniqueHotkeys",
             "MinimapAttacks", "MinimapRightClicks", "NumberOfPACs",
             "GapBetweenPACs", "ActionLatency", "ActionsInPAC", "TotalMapExplored",
             "WorkersMade", "UniqueUnitsMade", "ComplexUnitsMade",
             "ComplexAbilitiesUsed">>
      [] h = Wine ->
           <<"fixed acidity", "volatile acidity", "citric acid", "residual sugar",
             "chlorides", "free sulfur dioxide", "total sulfur dioxide", "density",
             "pH", "sulphates", "alcohol", "quality">>
      [] h = Yacht ->
           <<"LongPos", "PrismaticCoef", "LengthDisplRatio", "BeamDraughtRatio",
             "LengthBeamRatio", "FroudeNumber", "ResiduaryResistance">>

\* The names of the fields of a line of the handler's file.
FieldNames(h) == IF h = AutoMPG THEN AutoMPG_names ELSE Header(h)

\* The handlers whose source is a spreadsheet or a bundled array: its cells
\* are typed.  The other sources are delimited text.
TypedSource == {Appliances, Boston, Communities, Concrete, Istanbul, Wine}

\* The fields that hold text which is no number.
TextFields(h) ==
    CASE h = Ames -> {"MSZoning", "SaleType", "SaleCondition"}
      [] h = AirQuality -> {"Date", "Time"}
      [] h \in {Appliances, Istanbul} -> {"date"}
      [] OTHER -> {}

\* A line of a source file is generated from a kind <<v, m>>: v is the seed of
\* its numeric fields and m names the field that holds a missing-value tag (or
\* the sale condition of an Ames line); m = "" names none.
Marks(h) ==
    CASE h = Ames -> <<"Abnorml">>
      [] h = AutoMPG -> <<"3horsepower">>
      [] h = SkillCraft -> SkillCraft_missing_cols
      [] h = AirQuality -> <<"CO(GT)", "PT08.S1(CO)", "AH">>
      [] OTHER -> <<>>

LineKinds(h) == Seeds \X ({""} \cup Range(Marks(h)))

\* The rows of a file are given by row kinds <<v, tagged>>; the tag of a
\* tagged row sits in the field that the row's number picks from Marks.
RowKinds(h) ==
    {<<v, FALSE>> : v \in Seeds} \cup (IF Marks(h) = <<>> THEN {} ELSE {<<0, TRUE>>})

LineKind(h, k, i) ==
    <<k[1], IF k[2] THEN Marks(h)[((i - 1) % Len(Marks(h))) + 1] ELSE "">>

\* The number in field j, named name, of a row of seed v.
FieldVal(h, v, j, name) ==
    IF h = California THEN Pow(2, v + j - 1)
    ELSE IF h = Ames /\ name = "GrLivArea" THEN GrLivAreaLimit - 1 + v
    ELSE v * Stride + j - 1

\* Field j, named name, of a row of kind k, as the file holds it.
Field(h, k, j, name) ==
    LET val == FieldVal(h, k[1], j, name)
    IN  IF h = Ames /\ name = "SaleCondition"
          THEN Str(IF k[2] = "Abnorml" THEN <<"A", "b", "n", "o", "r", "m", "l">>
                   ELSE <<"N", "o", "r", "m", "a", "l">>)
        ELSE IF name \in TextFields(h) THEN Str(<<"R", "L">>)
        ELSE IF h \in {AutoMPG, SkillCraft} /\ k[2] = name THEN Str(<<"?">>)
        ELSE IF h = AirQuality /\ (k[2] = name \/ name = "NMHC(GT)")
          THEN Str(IntText(MissingTag))
        ELSE IF h = AirQuality /\ name \in AirQuality_comma_cols
          THEN Str(IntText(val) \o <<",", "5">>)
        ELSE IF h \in TypedSource THEN IntCell(val)
        ELSE Str(IntText(val))

FileRow(h, k) ==
    LET names == FieldNames(h) IN AsSeq([j \in DOMAIN names |-> Field(h, k, j, names[j])])

\* The lines a file of each handler may hold, by kind.
FileRows ==
    [h \in Handlers |-> [k \in LineKinds(h) |-> FileRow(h, k)] @@ <<>>] @@ <<>>

\* Sequences over S of length at most n.
RECURSIVE SeqsUpTo(_, _)
SeqsUpTo(S, n) ==
    IF n = 0 THEN {<<>>}
    ELSE LET shorter == SeqsUpTo(S, n - 1)
         IN  shorter \cup {Append(q, x) : q \in {r \in shorter : Len(r) = n - 1}, x \in S}

\* The file of handler h whose data rows are of the kinds given.
File(h, kinds) ==
    [header |-> Header(h), rows |-> AsSeq([i \in DOMAIN kinds |-> FileRows[h][LineKind(h, kinds[i], i)]])]

\* The largest number of data rows of a handler's file; the widest file, of
\* 41 columns, is kept one row shorter than the others.
RowsOf(h) == IF h = Ames THEN MaxRows - 1 ELSE MaxRows

\* The source files a handler may find, each file given by the kinds of its
\* rows: one file, or for the wine handler the white and the red sheet.
Sources(h) ==
    IF h = Wine
    THEN UNION {{<<SubSeq(q, 1, n), SubSeq(q, n + 1, Len(q))>> : n \in 0..Len(q)} :
                   q \in SeqsUpTo(RowKinds(h), RowsOf(h))}
    ELSE {<<q>> : q \in SeqsUpTo(RowKinds(h), RowsOf(h))}

Files(h, src) == AsSeq([f \in DOMAIN src |-> File(h, src[f])])

\* ---------------------------------------------------------------- reading
\* The texts that the fields of the source files hold.
FileTexts ==
    UNION {UNION {{FileRows[h][k][j].s : j \in DOMAIN FileRows[h][k]} :
                     k \in LineKinds(h)} : h \in Handlers}

\* A text reader's reading of one field: the number the text spells, or the
\* text itself when it spells none.
ParseField(s) == IF IsFloatText(s) THEN FloatOf(s) ELSE Str(s)

\* ParseField of every field text of the files.
ParsedField == [s \in FileTexts |-> ParseField(s)] @@ <<>>

\* The type inference of pandas' text readers: a column whose every field
\* reads as a number becomes numeric, any other column keeps its text.
InferTypes(df) ==
    LET parsed  == AsSeq([i \in 1..NRows(df) |->
                             AsSeq([j \in 1..NCols(df) |-> ParsedField[df.rows[i][j].s]])])
        numeric == AsSeq([j \in 1..NCols(df) |->
                             \A i \in 1..NRows(df) : parsed[i][j].t # "str"])
    IN  DataFrame(df.cols,
                  AsSeq([i \in 1..NRows(df) |->
                            AsSeq([j \in 1..NCols(df) |->
                                      IF numeric[j] THEN parsed[i][j] ELSE df.rows[i][j]])]))

\* pd.read_csv / pd.read_table of a file with a header line.
read_csv(file) == InferTypes(DataFrame(file.header, file.rows))

\* pd.read_excel: the cells of a sheet are typed.
read_excel(file) == DataFrame(file.header, file.rows)

\* usecols = range(lo, hi): sheet positions counted from 0.
UseColRange(df, lo, hi) == SelectCols(df, SubSeq(df.cols, lo + 1, hi))

\* skiprows = lines: line 0 is the header, line i the i-th data row.
SkipRows(file, lines) ==
    LET Idx == AsSeq([i \in DOMAIN file.rows |-> <<i, file.rows[i]>>])
        Keep(r) == r[1] \notin lines
        kept == KeepRows(Idx, Keep, 1)
    IN  [header |-> file.header, rows |-> AsSeq([i \in DOMAIN kept |-> kept[i][2]])]

\* nrows = n: at most the first n data rows.
NRowsLimit(file, n) ==
    [header |-> file.header,
     rows |-> SubSeq(file.rows, 1, IF Len(file.rows) < n THEN Len(file.rows) ELSE n)]

\* pd.concat([a, b])
Concat(a, b) == DataFrame(a.cols, a.rows \o b.rows)

\* sklearn's load_boston(): the feature array and the target vector.
load_boston(file) ==
    LET df == DataFrame(file.header, file.rows)
    IN  [data   |-> SelectCols(df, SubSeq(df.cols, 1, BostonFeatures)),
         target |-> SelectCols(df, SubSeq(df.cols, BostonFeatures + 1, NCols(df)))]

\* The first statement(s) of read_all: the table as read from the source.
ReadSource(h, fs) ==
    CASE h = AutoMPG -> InferTypes(DataFrame(AutoMPG_names, fs[1].rows))
      [] h = Ozone -> read_csv(SkipRows(fs[1], NAN_rows))
      [] h = AirQuality ->
           InferTypes(SelectCols(DataFrame(fs[1].header,
                                           NRowsLimit(fs[1], AirQuality_nrows).rows),
                                 AirQuality_usecols))
      [] h = Appliances -> UseColRange(read_excel(fs[1]), 1, 28)
      [] h = Istanbul -> UseColRange(read_excel(fs[1]), 2, 10)
      [] h = Boston -> load_boston(fs[1]).data
      [] h = Wine -> Concat(read_excel(fs[1]), read_excel(fs[2]))
      [] h \in {Communities, Concrete} -> read_excel(fs[1])
      [] OTHER -> read_csv(fs[1])

\* -------------------------------------------------------------- filtering
\* What a phase of read_all leaves: the table, or the exception it raised.
Ok(df) == [err |-> "none", df |-> df]

Raised(e) == [err |-> e, df |-> EmptyFrame]

CellOf(df, row, name) == row[IndexOf(df.cols, name)]

\* data[name] == '?' for one row.
IsMissingText(c) == c.t = "str" /\ c.s = <<"?">>

\* data[col] != -200 for one row: a text field never equals a number.
NotMissingTag(c) == ~(c.t = "num" /\ c.n = MissingTag /\ c.d = 1)

\* handler_UCI_AirQuality.read_all, the loop over cols: drop the rows tagged
\* missing in col, then turn a comma-decimal column into numbers.
RECURSIVE AirQualityLoop(_, _, _)
AirQualityLoop(df, cs, k) ==
    IF k > Len(cs) THEN Ok(df)
    ELSE LET j       == IndexOf(df.cols, cs[k])
             Keep(r) == NotMissingTag(r[j])
             kept    == DataFrame(df.cols, KeepRows(df.rows, Keep, 1))
             conv    == DataFrame(kept.cols,
                          AsSeq([i \in 1..NRows(kept) |->
                              AsSeq([c \in 1..NCols(kept) |->
                                  IF c = j THEN FloatOf(ReplaceComma(kept.rows[i][c].s))
                                  ELSE kept.rows[i][c]])]))
         IN  IF cs[k] \notin AirQuality_comma_cols THEN AirQualityLoop(kept, cs, k + 1)
             ELSE IF \E i \in 1..NRows(kept) : kept.rows[i][j].t # "str"
               THEN Raised("AttributeError")
             ELSE IF \E i \in 1..NRows(kept) : ~IsFloatText(ReplaceComma(kept.rows[i][j].s))
               THEN Raised("ValueError")
             ELSE AirQualityLoop(conv, cs, k + 1)

\* The outlier filter alone.
AmesOutlierFilter(df, a) ==
    LET Small(r) == LET c == CellOf(df, r, "GrLivArea") IN c.n < GrLivAreaLimit * c.d
    IN  Ok(IF a.remove_GrLivArea_outliers
           THEN DataFrame(df.cols, KeepRows(df.rows, Small, 1)) ELSE df)

\* handler_AmesHousing.read_all, lines 169-173.
AmesFilter(df, a) ==
    LET Small(r)  == LET c == CellOf(df, r, "GrLivArea") IN c.n < GrLivAreaLimit * c.d
        Normal(r) == CellOf(df, r, "SaleCondition") = Str(<<"N", "o", "r", "m", "a", "l">>)
        d1 == IF a.remove_GrLivArea_outliers
              THEN DataFrame(df.cols, KeepRows(df.rows, Small, 1)) ELSE df
        d2 == IF a.normal_sales_only
              THEN DataFrame(d1.cols, KeepRows(d1.rows, Normal, 1)) ELSE d1
    IN  Ok(d2)

\* data[~(data[c1] == '?' | ...)].astype(float)
DropMissingText(df, names) ==
    LET Keep(r) == ~\E k \in DOMAIN names : IsMissingText(CellOf(df, r, names[k]))
        kept    == DataFrame(df.cols, KeepRows(df.rows, Keep, 1))
    IN  IF AllFloatable(kept) THEN Ok(AsTypeFloat(kept)) ELSE Raised("ValueError")

HasFilter == {Ames, AutoMPG, SkillCraft, AirQuality}

FilterRows(h, df, a) ==
    CASE h = Ames -> AmesFilter(df, a)
      [] h = AutoMPG -> DropMissingText(df, <<"3horsepower">>)
      [] h = SkillCraft -> DropMissingText(df, SkillCraft_missing_cols)
      [] h = AirQuality -> AirQualityLoop(df, df.cols, 1)

\* -------------------------------------------------------------- selection
\* np.log(a / b) of two cells (b = 1 for np.log(a)).  The source values of
\* the California file are powers of two, so every logarithm taken is a
\* whole multiple of ln 2; any other quotient is kept as the symbol ln(n/d).
LogRatio(a, b) ==
    IF b.n = 0 THEN (IF a.n = 0 THEN NaN ELSE Inf)
    ELSE LET q == Frac("num", a.n * b.d, a.d * b.n)
         IN  IF q.n = 0 THEN Inf
             ELSE IF q.n < 0 THEN NaN
             ELSE IF IsPow2(q.n) /\ IsPow2(q.d)
               THEN Frac("log", Log2Floor(q.n) - Log2Floor(q.d), 1)
             ELSE [t |-> "ln", n |-> q.n, d |-> q.d, s |-> <<>>]

\* handler_CaliforniaHousing.read_all, lines 92-104.
CaliforniaAdjust(df) ==
    DataFrame(California_adjusted,
              AsSeq([i \in 1..NRows(df) |->
                  LET r == df.rows[i]
                  IN  <<r[1], r[2], LogRatio(r[3], IntCell(1)), LogRatio(r[4], r[6]),
                        LogRatio(r[5], r[6]), LogRatio(r[6], r[7]),
                        LogRatio(r[7], IntCell(1)), r[8], r[9]>>]))

\* handler_AutoMPG.read_all, lines 75-89: the second test of
\* features == 'continuous' is the source's.
AutoMPGSelect(df, features) ==
    LET Pick(names, at) ==
            DataFrame(names,
                      AsSeq([i \in 1..NRows(df) |->
                                AsSeq([k \in DOMAIN at |-> df.rows[i][at[k] + 1]])]))
    IN  IF features = "continuous"
          THEN Pick(<<"1displacement", "2horsepower", "3weight", "4acceleration", "5mpg">>,
                    <<1, 2, 3, 4, 7>>)
        ELSE IF features = "continuous"
          THEN Pick(<<"1cylinders", "2modelyear", "3origin", "4mpg">>, <<0, 5, 6, 7>>)
        ELSE df

\* handler_AmesHousing.read_all, lines 174-177.
AmesSelect(df, feature_subset) ==
    IF feature_subset = "numerical" THEN SelectCols(df, idx_numerical_features)
    ELSE IF feature_subset = "intuitive" THEN SelectCols(df, idx_intuitive_features)
    ELSE df

\* cols = cols[1:] + [cols[0]]; data = data[cols]
FirstColumnLast(df) == SelectCols(df, Tail(df.cols) \o <<Head(df.cols)>>)

\* The list as it is.
KeepOrder(cs, i) == cs

\* cols = cols[0:i] + cols[i+1:] + [cols[i]], i counted from 1 here.
MoveLast(cs, i) == SubSeq(cs, 1, i - 1) \o SubSeq(cs, i + 1, Len(cs)) \o <<cs[i]>>

\* A loop that deletes every excluded feature, the target among them.
RECURSIVE DropEveryExcluded(_, _, _)
DropEveryExcluded(df, to_predict, k) ==
    IF k > Len(exclude_features) THEN df
    ELSE DropEveryExcluded(DelCol(df, exclude_features[k]), to_predict, k + 1)

\* The loop over __exclude_features__ of handler_UCI_SkillCraft.read_all.
RECURSIVE DropExcluded(_, _, _)
DropExcluded(df, to_predict, k) ==
    IF k > Len(exclude_features) THEN df
    ELSE IF exclude_features[k] = to_predict THEN DropExcluded(df, to_predict, k + 1)
    ELSE DropExcluded(DelCol(df, exclude_features[k]), to_predict, k + 1)

\* handler_UCI_SkillCraft.read_all, lines 93-103.
SkillCraftSelect(df, to_predict) ==
    LET i == IndexOf(df.cols, to_predict)
    IN  IF i = 0 THEN Raised("ValueError")
        ELSE Ok(DropExcluded(SelectCols(df, MoveLast(df.cols, i)), to_predict, 1))

\* A selection that takes every column from total_UPDRS on as a feature.
ParkinsonsSelectFrom6(df, predict) ==
    LET named == DataFrame(column_names, df.rows)
        cs    == named.cols
    IN  IF NCols(df) # Len(column_names) THEN Raised("ValueError")
        ELSE IF predict = "motor_UPDRS"
          THEN Ok(SelectCols(named, SubSeq(cs, 6, Len(cs)) \o <<cs[5]>>))
        ELSE IF predict = "total_UPDRS"
          THEN Ok(SelectCols(named, SubSeq(cs, 7, Len(cs)) \o <<cs[6]>>))
        ELSE Raised("RuntimeError")

\* handler_UCI_Parkinsons.read_all, lines 90-102.
ParkinsonsSelect(df, predict) ==
    LET named == DataFrame(column_names, df.rows)
        cs    == named.cols
    IN  IF NCols(df) # Len(column_names) THEN Raised("ValueError")
        ELSE IF predict = "motor_UPDRS"
          THEN Ok(SelectCols(named, SubSeq(cs, 7, Len(cs)) \o <<cs[5]>>))
        ELSE IF predict = "total_UPDRS"
          THEN Ok(SelectCols(named, SubSeq(cs, 7, Len(cs)) \o <<cs[6]>>))
        ELSE Raised("RuntimeError")

HasSelect ==
    {Ames, AutoMPG, California, EUStock, Ozone, Appliances, Istanbul, Parkinsons,
     SkillCraft}

SelectColumns(h, df, a) ==
    CASE h = Ames -> Ok(AmesSelect(df, a.feature_subset))
      [] h = AutoMPG -> Ok(AutoMPGSelect(df, a.features))
      [] h = California -> Ok(IF a.feature_adjustment THEN CaliforniaAdjust(df) ELSE df)
      [] h = EUStock -> Ok(SelectCols(df, EUStock_cols))
      [] h = Ozone -> Ok(SelectCols(df, Ozone_cols))
      [] h \in {Appliances, Istanbul} -> Ok(FirstColumnLast(df))
      [] h = Parkinsons -> ParkinsonsSelect(df, a.predict)
      [] h = SkillCraft -> SkillCraftSelect(df, a.to_predict)

\* ------------------------------------------------------------------ state
VARIABLES
    handler,    \* the handler module whose read_all is called
    args,       \* the arguments of the call
    source,     \* the source file(s) of the handler, each by its rows' kinds
    data,       \* the local `data` of read_all
    pc,         \* the statement group read_all is at
    result,     \* how read_all returned `data`: "np", "pd", or "none" so far
    err,        \* the exception read_all raised, "none" if none
    trace       \* the steps read_all has taken, in order

\* The state of a call into handler_CroppedYaleFacesB.
VARIABLES
    call,       \* the function called and its arguments
    disk,       \* the directories of CroppedYaleFaces and their files
    ypc,        \* the statement the call is at
    loc,        \* the local variables of the functions on the call stack
    handles,    \* the image files that are open
    opened,     \* the image files that the call has opened, in order
    pgm,        \* what the last read_pgm did
    yresult,    \* the value the call returned
    yerr        \* the exception the call raised, "none" if none

\* The state of the interpreter that outlives a call.
VARIABLES
    lists,      \* the module-level lists of the handler modules
    session     \* the calls that have ended, in order, each with its outcome

yvars == <<call, disk, ypc, loc, handles, opened, pgm, yresult, yerr>>

tvars == <<handler, args, source, data, pc, result, err, trace>>

svars == <<lists, session>>

vars == <<tvars, yvars, svars>>

\* The module-level lists as the import of the handler modules leaves them.
ModuleLists ==
    [idx_numerical_features |-> idx_numerical_features,
     idx_intuitive_features |-> idx_intuitive_features,
     NAN_rows               |-> NAN_rows,
     exclude_features       |-> exclude_features]

\* The modules are imported and no call has ended.
NoSession ==
    /\ lists = ModuleLists
    /\ session = <<>>

\* No call into handler_CroppedYaleFacesB is made.
NoImageCall ==
    /\ call = [op |-> "none"]
    /\ disk = <<>>
    /\ ypc = "idle"
    /\ loc = <<>>
    /\ handles = {}
    /\ opened = <<>>
    /\ pgm = <<>>
    /\ yresult = <<>>
    /\ yerr = "none"

\* The content of the source file(s).
files == Files(handler, source)

ReturnTypes == {"np", "pd", "csv"}

\* 'minmax' stands for a scaling value that read_all does not name.
Scalings == {"None", "MinMax", "MeanVar", "minmax"}

\* The arguments a call may carry; an argument the handler does not take
\* stays at its default.  'categorical' and 'binary' stand for values of
\* feature_subset and features that read_all does not name.
Args(h) ==
    [return_type : ReturnTypes,
     scaling : Scalings,
     remove_GrLivArea_outliers : IF h = Ames THEN BOOLEAN ELSE {TRUE},
     normal_sales_only : IF h = Ames THEN BOOLEAN ELSE {TRUE},
     feature_subset : IF h = Ames THEN {"all", "numerical", "intuitive", "categorical"}
                      ELSE {"all"},
     features : IF h = AutoMPG THEN {"all", "continuous", "discrete", "binary"}
                ELSE {"continuous"},
     feature_adjustment : IF h = California THEN BOOLEAN ELSE {TRUE},
     predict : IF h = Parkinsons THEN {"motor_UPDRS", "total_UPDRS", "age"}
               ELSE {"motor_UPDRS"},
     to_predict : IF h = SkillCraft THEN {"APM", "TotalHours", "GameID", "Rank"}
                  ELSE {"APM"}]

Init ==
    /\ handler \in Handlers
    /\ args \in Args(handler)
    /\ source \in Sources(handler)
    /\ data = EmptyFrame
    /\ pc = "read"
    /\ result = "none"
    /\ err = "none"
    /\ trace = <<>>
    /\ NoImageCall
    /\ NoSession

\* A read_all of two statement groups: read, return.
AfterDirect(h, at) == "return"

\* A read_all that rescales the table as read, before its row filters.
AfterScaleFirst(h, at) ==
    IF at = "read" THEN "scale"
    ELSE IF at = "scale" /\ h \in HasFilter THEN "filter"
    ELSE IF at \in {"scale", "filter"} /\ h \in HasSelect THEN "select"
    ELSE "return"

\* The statement group that follows `at` in the handler's read_all.
After(h, at) ==
    IF at = "read" /\ h \in HasFilter THEN "filter"
    ELSE IF at \in {"read", "filter"} /\ h \in HasSelect THEN "select"
    ELSE IF at \in {"read", "filter", "select"} THEN "scale"
    ELSE "return"

Raise(e) ==
    /\ pc' = "raised"
    /\ err' = e
    /\ UNCHANGED <<data, result>>

\* data = pd.read_csv(...) and its like.
Read ==
    /\ pc = "read"
    /\ data' = ReadSource(handler, files)
    /\ pc' = After(handler, "read")
    /\ trace' = Append(trace, "read")
    /\ UNCHANGED <<handler, args, source, result, err>>
    /\ UNCHANGED <<yvars, svars>>

\* The row filters of the handler.
Filter ==
    /\ pc = "filter"
    /\ LET r == FilterRows(handler, data, args)
       IN  IF r.err = "none"
           THEN data' = r.df /\ pc' = After(handler, "filter") /\ UNCHANGED <<result, err>>
           ELSE Raise(r.err)
    /\ trace' = Append(trace, "filter")
    /\ UNCHANGED <<handler, args, source>>
    /\ UNCHANGED <<yvars, svars>>

\* The column selection and the move of the target to the last column.
Select ==
    /\ pc = "select"
    /\ LET r == SelectColumns(handler, data, args)
       IN  IF r.err = "none"
           THEN data' = r.df /\ pc' = After(handler, "select") /\ UNCHANGED <<result, err>>
           ELSE Raise(r.err)
    /\ trace' = Append(trace, "select")
    /\ UNCHANGED <<handler, args, source>>
    /\ UNCHANGED <<yvars, svars>>

\* if scaling == 'MinMax': ... elif scaling == 'MeanVar': ...
Scale ==
    /\ pc = "scale"
    /\ IF args.scaling \in {"MinMax", "MeanVar"}
       THEN /\ trace' = Append(trace, "scale")
            /\ IF ScalerAccepts(data, Front(data.cols))
               THEN /\ data' = ApplyScaling(data, data.cols, args.scaling)
                    /\ pc' = After(handler, "scale")
                    /\ UNCHANGED <<result, err>>
               ELSE Raise("ValueError")
       ELSE /\ pc' = After(handler, "scale")
            /\ UNCHANGED <<data, result, err, trace>>
    /\ UNCHANGED <<handler, args, source>>
    /\ UNCHANGED <<yvars, svars>>

\* A return that takes any return_type other than 'pd' for 'np'.
ReturnDefault ==
    /\ pc = "return"
    /\ result' = (IF args.return_type = "pd" /\ handler \in PdHandlers THEN "pd" ELSE "np")
    /\ pc' = "returned"
    /\ trace' = Append(trace, "return")
    /\ UNCHANGED <<handler, args, source, data, err>>
    /\ UNCHANGED <<yvars, svars>>

\* if return_type == 'np': return data.values (the array of data's cells)
\* elif return_type == 'pd': return data; else: raise
Return ==
    /\ pc = "return"
    /\ IF args.return_type = "np"
       THEN /\ result' = "np"
            /\ pc' = "returned"
            /\ UNCHANGED <<data, err>>
       ELSE IF args.return_type = "pd" /\ handler \in PdHandlers
       THEN /\ result' = "pd"
            /\ pc' = "returned"
            /\ UNCHANGED <<data, err>>
       ELSE Raise("RuntimeError")
    /\ trace' = Append(trace, "return")
    /\ UNCHANGED <<handler, args, source>>
    /\ UNCHANGED <<yvars, svars>>

Next == Read \/ Filter \/ Select \/ Scale \/ Return

Spec == Init /\ [][Next]_vars

\* ------------------------------------------------------------- properties
\* The data rows of the handler's (first) source file, as the file holds them.
SourceRows == files[1].rows

\* The names read_all knows the columns of the source by.
SourceNames == IF handler = Parkinsons THEN column_names ELSE FieldNames(handler)

\* The cells of column j as floats.
FloatColumn(df, j) == AsSeq([i \in 1..NRows(df) |-> AsFloat(df.rows[i][j])])

\* a < b for two cells n/d.
Less(a, b) == a.n * b.d < b.n * a.d

\* The return_type values the handler supports.
Supported == args.return_type = "np" \/ (args.return_type = "pd" /\ handler \in PdHandlers)

\* A SkillCraft line with no '?' in TotalHours, HoursPerWeek or Age.
MissingAt ==
    {IndexOf(Header(SkillCraft), SkillCraft_missing_cols[k]) :
        k \in DOMAIN SkillCraft_missing_cols}

NoMissing(r) == \A j \in MissingAt : r[j].s # <<"?">>

\* The handlers that move a target column last, and the target they move.
Relocating == {Istanbul, Appliances, SkillCraft, Parkinsons}

TargetOf ==
    CASE handler = Istanbul -> Header(Istanbul)[3]
      [] handler = Appliances -> Header(Appliances)[2]
      [] handler = SkillCraft -> args.to_predict
      [] handler = Parkinsons -> args.predict

\* C1: in the handlers that relocate a target column, the last column of the
\* table returned holds, in row i, the target field of the i-th retained row
\* of the source, and the other columns are columns of the source in the
\* order they have there.
C1_TargetLast ==
    (handler \in Relocating /\ pc = "returned") =>
        LET rows == IF handler = SkillCraft THEN SelectSeq(SourceRows, NoMissing)
                    ELSE SourceRows
            at   == IndexOf(SourceNames, TargetOf)
            rest == Front(data.cols)
            from == AsSeq([a \in DOMAIN rest |-> IndexOf(SourceNames, rest[a])])
        IN  /\ Last(data.cols) = TargetOf
            /\ NRows(data) = Len(rows)
            /\ \A i \in 1..NRows(data) : Last(data.rows[i]) = AsFloat(rows[i][at])
            /\ \A a \in DOMAIN from :
                  from[a] > (IF a = 1 THEN 0 ELSE from[a - 1])

\* C1: SkillCraft returns two of three rows with TotalHours, an excluded
\* feature, as the target.
C1_Witness ==
    /\ handler = SkillCraft
    /\ pc = "returned"
    /\ args.to_predict = "TotalHours"
    /\ Len(SourceRows) = 3
    /\ NRows(data) = 2

\* C2: the array handler_UCI_Boston.read_all returns has MEDV, attribute 14
\* of the dataset, as its last column.
C2_LastColumnIsMEDV ==
    (handler = Boston /\ pc = "returned") =>
        /\ Last(data.cols) = "MEDV"
        /\ \A i \in 1..NRows(data) :
              Last(data.rows[i]) = SourceRows[i][IndexOf(Header(Boston), "MEDV")]

\* C3: the scaling step leaves the last column, the column names and the
\* number of rows and columns as they are, and with scaling 'None' it leaves
\* the whole table as it is.
C3_ScalingKeepsTarget ==
    [][(pc = "scale" /\ pc' = "return") =>
          /\ data'.cols = data.cols
          /\ NRows(data') = NRows(data)
          /\ \A i \in 1..NRows(data) :
                /\ Len(data'.rows[i]) = Len(data.rows[i])
                /\ Last(data'.rows[i]) = Last(data.rows[i])
          /\ (args.scaling = "None" => data' = data)]_vars

\* C3: the wine handler has rescaled the first column of three rows and the
\* last column still holds the source's quality field.
C3_Witness ==
    /\ handler = Wine
    /\ pc = "return"
    /\ args.scaling = "MeanVar"
    /\ NRows(data) = 3
    /\ \E i \in 1..3 : data.rows[i][1].t = "root" /\ data.rows[i][1].n # 0
    /\ \A i \in 1..3 : Last(data.rows[i]) = Last((files[1].rows \o files[2].rows)[i])

\* C4: with scaling 'MinMax' every column but the last whose minimum lo and
\* maximum hi differ is mapped by x -> -1 + 2 (x - lo) / (hi - lo): the
\* minimum becomes -1 and the maximum 1.
C4_MinMaxLinear ==
    [][(pc = "scale" /\ args.scaling = "MinMax" /\ pc' = "return") =>
          \A new \in {data'} : \A j \in 1..(NCols(data) - 1) :
              LET col == FloatColumn(data, j)
                  out == ColumnAt(new, j)
                  lo  == CHOOSE c \in Range(col) : \A e \in Range(col) : ~Less(e, c)
                  hi  == CHOOSE c \in Range(col) : \A e \in Range(col) : ~Less(c, e)
                  R   == hi.n * lo.d - lo.n * hi.d
              IN  Less(lo, hi) =>
                    /\ \A i \in DOMAIN col :
                          /\ out[i].t = "num"
                          /\ out[i].d > 0
                          /\ out[i].n * R * col[i].d =
                                out[i].d * (2 * (col[i].n * lo.d - lo.n * col[i].d) * hi.d
                                              - R * col[i].d)
                    /\ \E i \in DOMAIN col : col[i] = lo /\ out[i] = IntCell(-1)
                    /\ \E i \in DOMAIN col : col[i] = hi /\ out[i] = IntCell(1)]_vars

\* C4: the column 0, 5, 10 of a concrete file has become -1, 0, 1.
C4_Witness ==
    /\ handler = Concrete
    /\ pc = "return"
    /\ args.scaling = "MinMax"
    /\ Len(SourceRows) = 3
    /\ \A i \in 1..3 : SourceRows[i][1] = IntCell(5 * (i - 1))
    /\ ColumnAt(data, 1) = <<IntCell(-1), IntCell(0), IntCell(1)>>

\* C5: with scaling 'MeanVar', in every handler, every column but the last
\* that is not constant comes out with mean 0 and population standard
\* deviation 1: its N cells are n_i / sqrt(d) for one d > 0, the n_i sum to 0
\* and their squares to N d.
C5_MeanVarStandardises ==
    [][(pc = "scale" /\ args.scaling = "MeanVar" /\ pc' = "return") =>
          \A new \in {data'} : \A j \in 1..(NCols(data) - 1) :
              LET col == FloatColumn(data, j)
                  out == ColumnAt(new, j)
              IN  (\E i \in DOMAIN col : col[i] # col[1]) =>
                    /\ \A i \in DOMAIN out :
                          out[i].t = "root" /\ out[i].d > 0 /\ out[i].d = out[1].d
                    /\ SumSeq(AsSeq([i \in DOMAIN out |-> out[i].n])) = 0
                    /\ SumSeq(AsSeq([i \in DOMAIN out |-> out[i].n * out[i].n]))
                          = Len(out) * out[1].d]_vars

\* C5: the stock exchange handler has standardised a column of three rows
\* that are not all equal.
C5_Witness ==
    /\ handler = EUStock
    /\ pc = "return"
    /\ args.scaling = "MeanVar"
    /\ NRows(data) = 3
    /\ \E i \in 1..3 : data.rows[i][1].t = "root" /\ data.rows[i][1].n # 0

\* Column j of the table holds one value in all its rows, of which there is
\* at least one.
Constant(df, j) ==
    NRows(df) > 0 /\ \A i \in 1..NRows(df) : AsFloat(df.rows[i][j]) = AsFloat(df.rows[1][j])

\* C6, as the specification has it: with scaling 'MeanVar' a column of zero
\* variance makes read_all raise or comes out with a value that is not finite.
C6_ZeroVariancePropagates ==
    [][(pc = "scale" /\ args.scaling = "MeanVar") =>
          \A new \in {data'} : \A j \in 1..(NCols(data) - 1) :
              Constant(data, j) =>
                  \/ pc' = "raised"
                  \/ \E i \in 1..NRows(new) : ~IsFinite(new.rows[i][j])]_vars

\* C6, as the code has it: with scaling 'MeanVar' a table of at least one row
\* and of numbers only is scaled without an error, and every column but the
\* last that has zero variance comes out as a column of finite zeros.
C6_ZeroVarianceGivesZeros ==
    [][(pc = "scale" /\ args.scaling = "MeanVar") =>
          /\ (/\ NRows(data) > 0
              /\ \A i \in 1..NRows(data) : \A j \in 1..(NCols(data) - 1) :
                    IsNumeric(data.rows[i][j]))
                => pc' = "return"
          /\ pc' = "return" =>
                \A new \in {data'} : \A j \in 1..(NCols(data) - 1) :
                    Constant(data, j) =>
                        \A i \in 1..NRows(new) :
                            /\ new.rows[i][j].t = "root"
                            /\ new.rows[i][j].n = 0
                            /\ new.rows[i][j].d > 0]_vars

\* C6: a concrete file of one row, every column of zero variance, has been
\* scaled to zeros.
C6_Witness ==
    /\ handler = Concrete
    /\ pc = "return"
    /\ args.scaling = "MeanVar"
    /\ Len(SourceRows) = 1
    /\ NRows(data) = 1
    /\ data.rows[1][1] = OverRoot(0, 1)

\* The handlers that filter rows by their fields, and the test a source line
\* passes when it satisfies every enabled filter of the handler.
RowFiltering == {Ames, AutoMPG, SkillCraft}

GrLivAreaAt == IndexOf(Header(Ames), "GrLivArea")

SaleConditionAt == IndexOf(Header(Ames), "SaleCondition")

HorsepowerAt == IndexOf(AutoMPG_names, "3horsepower")

Passes(r) ==
    CASE handler = Ames ->
           /\ args.remove_GrLivArea_outliers =>
                 LET c == FloatOf(r[GrLivAreaAt].s) IN c.n < GrLivAreaLimit * c.d
           /\ args.normal_sales_only =>
                 r[SaleConditionAt].s = <<"N", "o", "r", "m", "a", "l">>
      [] handler = AutoMPG -> r[HorsepowerAt].s # <<"?">>
      [] handler = SkillCraft -> NoMissing(r)
      [] OTHER -> TRUE

\* C7: the rows left by the filters of AmesHousing, AutoMPG and SkillCraft are
\* the source lines that pass every enabled filter, in the order of the
\* source, each field read as the number it spells; the number of rows left,
\* and of rows returned, is the number of source lines less those that fail a
\* filter.
C7_FilteredSubsequence ==
    (handler \in RowFiltering /\ pc \in {"select", "returned"}) =>
        LET rows == SourceRows
        IN  /\ NRows(data) <= Len(rows)
            /\ NRows(data) = Len(rows) - Cardinality({i \in DOMAIN rows : ~Passes(rows[i])})
            /\ pc = "select" =>
                  LET kept == SelectSeq(rows, Passes)
                  IN  /\ NRows(data) = Len(kept)
                      /\ \A i \in 1..NRows(data) : \A j \in 1..NCols(data) :
                            data.rows[i][j] = ParseField(kept[i][j].s)

\* C7: AutoMPG returns the first and the third of three rows, the second
\* holding '?' as its horsepower.
C7_Witness ==
    /\ handler = AutoMPG
    /\ pc = "returned"
    /\ Len(SourceRows) = 3
    /\ SourceRows[2][HorsepowerAt].s = <<"?">>
    /\ NRows(data) = 2
    /\ args.features = "all"
    /\ args.scaling = "None"
    /\ \A j \in 1..NCols(data) :
          /\ data.rows[1][j] = FloatOf(SourceRows[1][j].s)
          /\ data.rows[2][j] = FloatOf(SourceRows[3][j].s)

\* C8: no row that handler_UCI_AirQuality.read_all returns holds the missing
\* value tag -200 in any column.
C8_NoMissingTag ==
    (handler = AirQuality /\ pc = "returned" /\ args.scaling = "None") =>
        \A i \in 1..NRows(data) : \A j \in 1..NCols(data) :
            data.rows[i][j] # IntCell(MissingTag)

\* C9: read_all returns only for a return_type the handler supports, and at
\* its last statement any other return_type raises RuntimeError and returns
\* nothing.
C9_InvalidReturnTypeRaises ==
    /\ [](result # "none" => Supported)
    /\ [][(pc = "return" /\ ~Supported) =>
             (pc' = "raised" /\ err' = "RuntimeError" /\ result' = "none")]_vars

\* C9: AmesHousing, which has no 'pd' branch, has raised on return_type 'pd'.
C9_Witness ==
    /\ handler = Ames
    /\ args.return_type = "pd"
    /\ pc = "raised"
    /\ err = "RuntimeError"
    /\ Last(trace) = "return"
    /\ result = "none"

\* The steps read_all takes up to its return statement.
StepsOf(h, scaling) ==
    <<"read">> \o (IF h \in HasFilter THEN <<"filter">> ELSE <<>>)
               \o (IF h \in HasSelect THEN <<"select">> ELSE <<>>)
               \o (IF scaling \in {"MinMax", "MeanVar"} THEN <<"scale">> ELSE <<>>)
               \o <<"return">>

\* C10, as the specification has it: when read_all ends in the error of an
\* unsupported return_type or predict value, no read of the source, no
\* filtering and no scaling has come before the error.
C10_RejectedBeforeRead ==
    (pc = "raised" /\ err = "RuntimeError") =>
        \A i \in DOMAIN trace : trace[i] \notin {"read", "filter", "scale"}

\* C10, as the code has it: an unsupported return_type is rejected by the
\* last statement of read_all, after the read of the source and after the
\* filtering, the selection and the requested scaling; an unsupported predict
\* value of UCI_Parkinsons is rejected after the read, before any scaling.
C10_RejectedLate ==
    (pc = "raised" /\ err = "RuntimeError") =>
        \/ /\ ~Supported
           /\ trace = StepsOf(handler, args.scaling)
        \/ /\ handler = Parkinsons
           /\ args.predict \notin {"motor_UPDRS", "total_UPDRS"}
           /\ trace = <<"read", "select">>

\* C10: UCI_Parkinsons has raised on predict = 'age' with the file read.
C10_Witness ==
    /\ handler = Parkinsons
    /\ args.predict = "age"
    /\ pc = "raised"
    /\ err = "RuntimeError"
    /\ trace = <<"read", "select">>
    /\ NRows(data) = 2

\* The option values that the docstrings of read_all name.
KnownOptions ==
    /\ args.scaling \in {"None", "MinMax", "MeanVar"}
    /\ args.feature_subset \in {"all", "numerical", "intuitive"}
    /\ args.features \in {"all", "continuous", "discrete"}

\* C11: a call of read_all with a scaling, feature_subset or features value
\* that the handler does not know raises an error: it never returns a table.
C11_UnknownOptionRaises == pc = "returned" => KnownOptions

\* The columns of the AutoMPG table for each documented features value.
AutoMPG_documented(features) ==
    IF features = "discrete" THEN <<"1cylinders", "2modelyear", "3origin", "4mpg">>
    ELSE IF features = "continuous"
      THEN <<"1displacement", "2horsepower", "3weight", "4acceleration", "5mpg">>
    ELSE AutoMPG_names

\* C12: handler_AutoMPG.read_all returns, for features = 'discrete', exactly
\* the columns cylinders, modelyear, origin, mpg; for 'continuous' exactly
\* displacement, horsepower, weight, acceleration, mpg; for 'all' the eight
\* columns of the file with mpg last.
C12_AutoMPGFeatureColumns ==
    (handler = AutoMPG /\ pc = "returned"
        /\ args.features \in {"all", "continuous", "discrete"}) =>
        /\ data.cols = AutoMPG_documented(args.features)
        /\ \A i \in 1..NRows(data) : Len(data.rows[i]) = Len(data.cols)

\* ============================================================ face images
\* handler_CroppedYaleFacesB: the image files are read as bytes.  A file is
\* the sequence of its bytes; the text of a header is written to bytes with
\* ord and parsed back from the bytes by read_pgm.

\* Largest number of payload bytes of an image file.
MaxBytes == 6
\* Largest number of files on the disk.
MaxFiles == 3

\* ord(c) of the characters that the file headers are written with.
ord ==
    [c \in DigitSet |-> 48 + DigitValue[c]]
        @@ ("P" :> 80) @@ (" " :> 32) @@ ("\n" :> 10) @@ ("x" :> 120) @@ ("-" :> 45)

\* The bytes of a text.
Encode(text) == AsSeq([i \in DOMAIN text |-> ord[text[i]]])

\* str.isspace of a byte.
Whitespace == {9, 10, 11, 12, 13, 32}

\* pgmf.readline() with pos bytes consumed: the bytes up to and including
\* the next newline, or the rest of the file when there is none.
readline(b, pos) ==
    LET nl == {i \in (pos + 1)..Len(b) : b[i] = ord["\n"]}
        to == IF nl = {} THEN Len(b) ELSE CHOOSE i \in nl : \A j \in nl : i <= j
    IN  SubSeq(b, pos + 1, to)

\* str.split(): the maximal runs of bytes that are no whitespace.
RECURSIVE split(_)
split(s) ==
    IF s = <<>> THEN <<>>
    ELSE IF Head(s) \in Whitespace THEN split(Tail(s))
    ELSE LET ws   == {i \in DOMAIN s : s[i] \in Whitespace}
             stop == IF ws = {} THEN Len(s) + 1
                     ELSE CHOOSE i \in ws : \A j \in ws : i <= j
         IN  <<SubSeq(s, 1, stop - 1)>> \o split(SubSeq(s, stop, Len(s)))

\* str.strip()
strip(s) ==
    LET ink == {i \in DOMAIN s : s[i] \notin Whitespace}
    IN  IF ink = {} THEN <<>>
        ELSE SubSeq(s, CHOOSE i \in ink : \A j \in ink : i <= j,
                       CHOOSE i \in ink : \A j \in ink : i >= j)

\* The digits of an integer literal without its sign.
Magnitude(s) == IF s # <<>> /\ Head(s) \in {43, 45} THEN Tail(s) ELSE s

\* int(s) succeeds: optional whitespace around an optional sign and digits.
IsIntText(s) ==
    LET u == Magnitude(strip(s))
    IN  u # <<>> /\ \A i \in DOMAIN u : u[i] \in 48..57

RECURSIVE IntUpTo(_, _)
IntUpTo(u, i) == IF i = 0 THEN 0 ELSE 10 * IntUpTo(u, i - 1) + (u[i] - 48)

\* int(s)
int(s) ==
    LET t == strip(s)
        u == Magnitude(t)
    IN  (IF Head(t) = 45 THEN -1 ELSE 1) * IntUpTo(u, Len(u))

\* ord(pgmf.read(1)) at byte i of the file: read(1) gives '' at the end of
\* the file, and ord('') raises TypeError.
PadSample(b, i) == [err |-> "none", v |-> IF i <= Len(b) THEN b[i] ELSE 0]

Sample(b, i) ==
    IF i <= Len(b) THEN [err |-> "none", v |-> b[i]] ELSE [err |-> "TypeError", v |-> 0]

\* The largest depth that read_pgm accepts.
MaxDepth == 255

AnyDepth(depth) == TRUE

\* assert depth <= 255
DepthOk(depth) == depth <= MaxDepth

\* assert pgmf.readline() == 'P5\n'
MagicOk(line) == line = Encode(<<"P", "5", "\n">>)

\* The grid filled column by column.
ColumnMajor(width, height, r, c) == (c - 1) * height + r

\* The number of the read(1) call that fills raster[r][c]: the rows are
\* appended one after the other, each row from left to right.
Nth(width, height, r, c) == (r - 1) * width + c

\* What read_pgm(pgmf) does with a file of bytes b: the raster it returns or
\* the exception it raises, and the number of payload bytes it has read.
read_pgm(b) ==
    LET l1   == readline(b, 0)
        l2   == readline(b, Len(l1))
        l3   == readline(b, Len(l1) + Len(l2))
        at   == Len(l1) + Len(l2) + Len(l3)
        toks == split(l2)
        Fail(e, n) == [err |-> e, raster |-> <<>>, nread |-> n]
    IN  IF ~MagicOk(l1) THEN Fail("AssertionError", 0)
        ELSE IF \E k \in DOMAIN toks : ~IsIntText(toks[k]) THEN Fail("ValueError", 0)
        ELSE IF Len(toks) # 2 THEN Fail("ValueError", 0)
        ELSE IF ~IsIntText(l3) THEN Fail("ValueError", 0)
        ELSE IF ~DepthOk(int(l3)) THEN Fail("AssertionError", 0)
        ELSE LET width  == int(toks[1])
                 height == int(toks[2])
                 reads  == AsSeq([k \in 1..(width * height) |-> Sample(b, at + k)])
                 bad    == {k \in DOMAIN reads : reads[k].err # "none"}
             IN  IF bad # {}
                 THEN Fail("TypeError", (CHOOSE k \in bad : \A j \in bad : k <= j) - 1)
                 ELSE [err    |-> "none",
                       raster |-> AsSeq([r \in 1..height |->
                                     AsSeq([c \in 1..width |->
                                               reads[Nth(width, height, r, c)].v])]),
                       nread  |-> width * height]

\* skimage.img_as_float of an int16 sample: (v + 0.5) * 2 / 65535.
img_as_float(v) == Num(2 * v + 1, 65535)

\* skimage.img_as_int of an int16 array leaves it as it is.
img_as_int(v) == v

\* skimage.transform.rescale at scale 1.0: an integer image is converted with
\* img_as_float (preserve_range is False), a float image keeps its values.
rescale(image, isfloat) ==
    IF isfloat THEN image
    ELSE AsSeq([r \in DOMAIN image |->
                   AsSeq([c \in DOMAIN image[r] |-> img_as_float(image[r][c])])])

\* Lines 118-121 of read_single_filename (160-164 of read_ambient):
\* data = np.array(raster).astype('int16'); the datatype branch; rescale.
Convert(raster, datatype) ==
    IF datatype = "float"
    THEN rescale(AsSeq([r \in DOMAIN raster |->
                           AsSeq([c \in DOMAIN raster[r] |->
                                     img_as_float(img_as_int(raster[r][c]))])]), TRUE)
    ELSE rescale(raster, FALSE)

\* ------------------------------------------------------------ image files
\* The header lines an image file may start with: well-formed ones and
\* ones that read_pgm rejects.  A magic token followed by a space and a size
\* line of two lines give the headers 'P5 3 2\n255\n' and 'P5\n3\n2\n255\n',
\* whose items are delimited by other whitespace than the usual.
MagicLines == {<<"P", "5", "\n">>, <<"P", "6", "\n">>, <<"P", "5", " ">>}

SizeLine(w, h) == IntText(w) \o <<" ">> \o IntText(h) \o <<"\n">>

Sizes == {<<3, 2>>, <<2, 2>>, <<1, 1>>}

SizeLines ==
    {SizeLine(d[1], d[2]) : d \in Sizes}
        \cup {<<"x", " ", "2", "\n">>, <<"2", "\n">>, <<"3", "\n", "2", "\n">>}

DepthLine(d) == IntText(d) \o <<"\n">>

Depths == {255, 15, 256}

DepthLines == {DepthLine(d) : d \in Depths} \cup {<<"x", "\n">>}

\* The payload bytes of the files: runs of the bytes below, from one of two
\* starting points.
PayloadBytes == <<0, 128, 255, 10, 20, 30>>

PayloadStarts == {0, 2, 4}

Payload(start, n) ==
    AsSeq([i \in 1..n |-> PayloadBytes[((start + i - 1) % Len(PayloadBytes)) + 1]])

\* An image file is given by its header lines and its payload.
PgmKinds ==
    [magic : MagicLines, size : SizeLines, depth : DepthLines,
     start : PayloadStarts, n : 0..MaxBytes]

\* The bytes of the file of kind k.
Bytes(k) == Encode(k.magic \o k.size \o k.depth) \o Payload(k.start, k.n)

\* read_pgm of every image file.
Decoded == [k \in PgmKinds |-> read_pgm(Bytes(k))] @@ <<>>

\* ------------------------------------------------------------ directories
\* The subjects whose directory yaleB<nr> the disk may hold.
Subjects == {1, 2, 3}

\* The file names of a subject's directory, written without their prefix
\* yaleB<nr>_P00 and with a letter for the two angles of illumination.
ImageNames ==
    {<<"a", ".", "p", "g", "m">>, <<"b", ".", "p", "g", "m">>, <<"c", ".", "p", "g", "m">>}

AmbientName == <<"A", "m", "b", "i", "e", "n", "t", ".", "p", "g", "m">>

InfoName == <<"a", ".", "i", "n", "f", "o">>

FileNames == ImageNames \cup {AmbientName, InfoName}

\* sub in s
Contains(s, sub) ==
    \E i \in 1..(Len(s) - Len(sub) + 1) : SubSeq(s, i, i + Len(sub) - 1) = sub

\* glob's '*.pgm': the name ends in .pgm and does not start with a dot.
MatchesPgm(name) ==
    /\ Len(name) >= 4
    /\ SubSeq(name, Len(name) - 3, Len(name)) = <<".", "p", "g", "m">>
    /\ Head(name) # "."

\* A list that keeps every item.
KeepAll(item) == TRUE

\* "Ambient" not in item
NotAmbient(item) == ~Contains(item, <<"A", "m", "b", "i", "e", "n", "t">>)

\* The image of a directory's file: two rows of two pixels that differ from
\* file to file, or the same file cut short before its last pixel.
StartOf(name) ==
    IF name = <<"b", ".", "p", "g", "m">> THEN 2
    ELSE IF name = <<"c", ".", "p", "g", "m">> THEN 4
    ELSE 0

Whole(name) ==
    [magic |-> <<"P", "5", "\n">>, size |-> SizeLine(2, 2), depth |-> DepthLine(MaxDepth),
     start |-> StartOf(name), n |-> 4]

CutShort(name) == [Whole(name) EXCEPT !.n = 3]

\* The files a directory may hold.
Entries ==
    UNION {{[name |-> n, kind |-> Whole(n)], [name |-> n, kind |-> CutShort(n)]} :
              n \in ImageNames}
        \cup {[name |-> n, kind |-> Whole(n)] : n \in {AmbientName, InfoName}}

\* The directories of at most n files: the order is the order in which the
\* file system lists them, and no two files have the same name.
Directories(n) ==
    {q \in SeqsUpTo(Entries, n) :
        \A i, j \in DOMAIN q : i # j => q[i].name # q[j].name}

\* The directories of the subjects of a database: the images a and b, the
\* image a cut short, and the ambient image.
DatabaseDirectories(n) ==
    {q \in Directories(n) :
        \A i \in DOMAIN q :
            /\ q[i].name \in {<<"a", ".", "p", "g", "m">>, <<"b", ".", "p", "g", "m">>,
                              AmbientName}
            /\ q[i].name = <<"b", ".", "p", "g", "m">> => q[i].kind = Whole(q[i].name)}

Absent == [present |-> FALSE, files |-> <<>>]

Present(q) == [present |-> TRUE, files |-> q]

\* A plain file that has the name of a subject's directory: os.listdir lists
\* it and os.path.isdir is false for it.
PlainFile == [present |-> FALSE, files |-> <<>>, plain |-> TRUE]

\* The calls into the handler.  read_single_filename is called with the name
\* of an image of subject 1; 'rows' stands for a datashape that
\* read_subject_all does not name.
Calls ==
    [op : {"read_single_filename", "read_ambient"}, nr_subject : {1},
     datashape : {"columns"}, datatype : {"float", "int"}, until_subject : {1}]
    \cup
    [op : {"read_subject_all"}, nr_subject : {1},
     datashape : {"columns", "matrices", "rows"}, datatype : {"float", "int"},
     until_subject : {1}]
    \cup
    [op : {"read_all"}, nr_subject : {1},
     datashape : {"columns"}, datatype : {"float"},
     until_subject : 1..(Cardinality(Subjects) + 1)]

\* The name of the file that a call for a single image opens.
SingleName(c) == IF c.op = "read_ambient" THEN AmbientName ELSE <<"a", ".", "p", "g", "m">>

\* The disks a call may find.  A call for a single image finds its file with
\* any content, or no file; a call for a subject finds any directory; a call
\* for the database finds the directories of some subjects.
Disks(c) ==
    IF c.op \in {"read_single_filename", "read_ambient"}
    THEN {[s \in Subjects |->
              IF s = 1 THEN Present(<<[name |-> SingleName(c), kind |-> k]>>) ELSE Absent] :
              k \in PgmKinds}
         \cup {[s \in Subjects |-> IF s = 1 THEN Present(<<>>) ELSE Absent]}
    ELSE IF c.op = "read_subject_all"
    THEN {[s \in Subjects |-> IF s = 1 THEN d ELSE Absent] :
              d \in {Absent} \cup {Present(q) : q \in Directories(MaxFiles)}}
    ELSE LET dirs == {Absent, PlainFile}
                         \cup {Present(q) : q \in DatabaseDirectories(MaxFiles)}
         IN  {d \in [Subjects -> dirs] :
                 SumSeq(AsSeq([s \in 1..Cardinality(Subjects) |-> Len(d[s].files)]))
                     <= MaxFiles}

\* ------------------------------------------------------------ image calls
\* No call of a tabular read_all is made.
NoTableCall ==
    /\ handler = "none"
    /\ args = <<>>
    /\ source = <<>>
    /\ data = EmptyFrame
    /\ pc = "idle"
    /\ result = "none"
    /\ err = "none"
    /\ trace = <<>>

\* [item for item in os.listdir(...) if item[0:4] == 'yale'], each entry
\* yaleB<nr>, a directory or not, by its number.
Listing(d) == {s \in Subjects : d[s].present \/ d[s] = PlainFile}

\* os.path.isdir of the directory of subject nr.
isdir(d, nr) == nr \in Subjects /\ d[nr].present

\* The state at the first statement of the called function.
YaleInit ==
    /\ NoTableCall
    /\ NoSession
    /\ call \in Calls
    /\ disk \in Disks(call)
    /\ ypc = (IF call.op = "read_all" THEN "scan"
              ELSE IF call.op = "read_subject_all" THEN "glob" ELSE "open")
    /\ loc = [subject |-> call.nr_subject, fn |-> SingleName(call), files |-> <<>>,
              i |-> 0, image |-> <<>>, data |-> <<>>, counter |-> 1,
              subject_dirs |-> Listing(disk), retr |-> <<>>]
    /\ handles = {}
    /\ opened = <<>>
    /\ pgm = <<>>
    /\ yresult = <<>>
    /\ yerr = "none"

\* An exception that is caught: the call returns what it has loaded so far.
ReturnLoaded(e) ==
    /\ ypc' = "returned"
    /\ yerr' = e
    /\ yresult' = (IF call.op = "read_all" THEN loc.retr ELSE loc.data)

\* raise: the exception leaves the function and its callers, nothing is
\* returned.
YRaise(e) ==
    /\ ypc' = "raised"
    /\ yerr' = e
    /\ UNCHANGED yresult

\* The files of a subject's directory, an absent directory having none.
FilesOf(d, nr) == IF isdir(d, nr) THEN d[nr].files ELSE <<>>

\* read_subject_all, lines 204-209: the .pgm files of the directory without
\* the ambient image; files[0] is the first image to read.
Glob ==
    /\ ypc = "glob"
    /\ LET dir    == FilesOf(disk, loc.subject)
           names  == AsSeq([k \in DOMAIN dir |-> dir[k].name])
           listed == SelectSeq(names, MatchesPgm)
           kept   == SelectSeq(listed, NotAmbient)
       IN  IF kept = <<>>
           THEN YRaise("IndexError") /\ UNCHANGED loc
           ELSE /\ loc' = [loc EXCEPT !.files = kept, !.i = 0, !.fn = kept[1]]
                /\ ypc' = "open"
                /\ UNCHANGED <<yresult, yerr>>
    /\ UNCHANGED <<call, disk, handles, opened, pgm>>
    /\ UNCHANGED <<tvars, svars>>

\* with open(fn) as f: the file is opened, or IOError when there is none.
Open ==
    /\ ypc = "open"
    /\ IF \E k \in DOMAIN FilesOf(disk, loc.subject) :
              FilesOf(disk, loc.subject)[k].name = loc.fn
       THEN /\ handles' = handles \cup {<<loc.subject, loc.fn>>}
            /\ opened' = Append(opened, <<loc.subject, loc.fn>>)
            /\ ypc' = "read_pgm"
            /\ UNCHANGED <<yresult, yerr>>
       ELSE YRaise("IOError") /\ UNCHANGED <<handles, opened>>
    /\ UNCHANGED <<call, disk, loc, pgm>>
    /\ UNCHANGED <<tvars, svars>>

\* The content of the file that is open.
KindOf(d, nr, fn) ==
    LET dir == d[nr].files
    IN  dir[CHOOSE k \in DOMAIN dir : dir[k].name = fn].kind

\* read_pgm(f)
ReadPgm ==
    /\ ypc = "read_pgm"
    /\ pgm' = Decoded[KindOf(disk, loc.subject, loc.fn)]
    /\ ypc' = "close"
    /\ UNCHANGED <<call, disk, loc, handles, opened, yresult, yerr>>
    /\ UNCHANGED <<tvars, svars>>

\* A file that is closed by a statement after read_pgm, which an exception
\* of read_pgm skips.
CloseOnReturn ==
    /\ ypc = "close"
    /\ IF pgm.err = "none"
       THEN /\ handles' = handles \ {<<loc.subject, loc.fn>>}
            /\ ypc' = "convert"
            /\ UNCHANGED <<yresult, yerr>>
       ELSE YRaise(pgm.err) /\ UNCHANGED handles
    /\ UNCHANGED <<call, disk, loc, opened, pgm>>
    /\ UNCHANGED <<tvars, svars>>

\* The end of the with block: the file is closed, and an exception of
\* read_pgm leaves the function and its callers.
Close ==
    /\ ypc = "close"
    /\ handles' = handles \ {<<loc.subject, loc.fn>>}
    /\ IF pgm.err = "none"
       THEN ypc' = "convert" /\ UNCHANGED <<yresult, yerr>>
       ELSE YRaise(pgm.err)
    /\ UNCHANGED <<call, disk, loc, opened, pgm>>
    /\ UNCHANGED <<tvars, svars>>

\* read_single_filename, lines 118-121 (read_ambient, lines 161-164): the
\* image goes to the caller.
ConvertImage ==
    /\ ypc = "convert"
    /\ LET image == Convert(pgm.raster, call.datatype)
       IN  IF call.op \in {"read_single_filename", "read_ambient"}
           THEN yresult' = image /\ ypc' = "returned" /\ UNCHANGED loc
           ELSE /\ loc' = [loc EXCEPT !.image = image]
                /\ ypc' = "assign"
                /\ UNCHANGED yresult
    /\ UNCHANGED <<call, disk, handles, opened, pgm, yerr>>
    /\ UNCHANGED <<tvars, svars>>

\* np.zeros of the shape that datashape asks for, for n images like I.
Zeros(datashape, n, I) ==
    IF datashape = "matrices"
    THEN AsSeq([i \in 1..n |->
                   AsSeq([r \in DOMAIN I |-> AsSeq([c \in DOMAIN I[r] |-> IntCell(0)])])])
    ELSE AsSeq([p \in 1..(Len(I) * Len(I[1])) |-> AsSeq([i \in 1..n |-> IntCell(0)])])

\* image.ravel() of a grid whose rows are laid down side by side.
SideBySide(I, p) == I[((p - 1) % Len(I)) + 1][((p - 1) \div Len(I)) + 1]

\* image.ravel(): the rows one after the other.
ravel(I, p) == I[((p - 1) \div Len(I[1])) + 1][((p - 1) % Len(I[1])) + 1]

\* data[i, :, :] = image (line 213), data[:, i] = image.ravel() (line 217),
\* for the i-th file.
Store(d, i, I, datashape) ==
    IF datashape = "matrices" THEN [d EXCEPT ![i] = I]
    ELSE AsSeq([p \in DOMAIN d |-> [d[p] EXCEPT ![i] = ravel(I, p)]])

\* read_subject_all, lines 209-217: the first image gives the shape of the
\* array; then every file is read again and stored.
Assign ==
    /\ ypc = "assign"
    /\ IF loc.i = 0
       THEN IF call.datashape \in {"matrices", "columns"}
            THEN /\ loc' = [loc EXCEPT
                               !.data = Zeros(call.datashape, Len(loc.files), loc.image),
                               !.i = 1, !.fn = loc.files[1]]
                 /\ ypc' = "open"
                 /\ UNCHANGED <<yresult, yerr>>
            ELSE YRaise("UnboundLocalError") /\ UNCHANGED loc
       ELSE /\ loc' = [loc EXCEPT
                          !.data = Store(loc.data, loc.i, loc.image, call.datashape),
                          !.i = IF loc.i < Len(loc.files) THEN loc.i + 1 ELSE loc.i,
                          !.fn = IF loc.i < Len(loc.files) THEN loc.files[loc.i + 1]
                                 ELSE loc.fn]
            /\ ypc' = (IF loc.i < Len(loc.files) THEN "open" ELSE "return")
            /\ UNCHANGED <<yresult, yerr>>
    /\ UNCHANGED <<call, disk, handles, opened, pgm>>
    /\ UNCHANGED <<tvars, svars>>

\* return data (line 218); in read_all, lines 272-276: the array is stored
\* under the subject's number and the subject leaves the pending list, or
\* list.remove raises ValueError when the list does not hold it.
ReturnSubject ==
    /\ ypc = "return"
    /\ IF call.op = "read_subject_all"
       THEN yresult' = loc.data /\ ypc' = "returned" /\ UNCHANGED <<loc, yerr>>
       ELSE IF loc.counter \in loc.subject_dirs
       THEN /\ loc' = [loc EXCEPT !.retr = (loc.counter :> loc.data) @@ loc.retr,
                                  !.subject_dirs = loc.subject_dirs \ {loc.counter},
                                  !.counter = loc.counter + 1]
            /\ ypc' = "scan"
            /\ UNCHANGED <<yresult, yerr>>
       ELSE YRaise("ValueError") /\ UNCHANGED loc
    /\ UNCHANGED <<call, disk, handles, opened, pgm>>
    /\ UNCHANGED <<tvars, svars>>

\* A loop that goes on while the pending list holds an entry.
ScanWhilePending ==
    /\ ypc = "scan"
    /\ IF loc.subject_dirs # {}
       THEN /\ IF isdir(disk, loc.counter)
               THEN loc' = [loc EXCEPT !.subject = loc.counter] /\ ypc' = "glob"
               ELSE loc' = [loc EXCEPT !.counter = loc.counter + 1] /\ ypc' = "scan"
            /\ UNCHANGED yresult
       ELSE yresult' = loc.retr /\ ypc' = "returned" /\ UNCHANGED loc
    /\ UNCHANGED <<call, disk, handles, opened, pgm, yerr>>
    /\ UNCHANGED <<tvars, svars>>

\* read_all, lines 269-277: one test of the loop condition and, for a number
\* without a directory, one pass of the loop.
Scan ==
    /\ ypc = "scan"
    /\ IF loc.subject_dirs # {} /\ loc.counter <= call.until_subject
       THEN /\ IF isdir(disk, loc.counter)
               THEN loc' = [loc EXCEPT !.subject = loc.counter] /\ ypc' = "glob"
               ELSE loc' = [loc EXCEPT !.counter = loc.counter + 1] /\ ypc' = "scan"
            /\ UNCHANGED yresult
       ELSE yresult' = loc.retr /\ ypc' = "returned" /\ UNCHANGED loc
    /\ UNCHANGED <<call, disk, handles, opened, pgm, yerr>>
    /\ UNCHANGED <<tvars, svars>>

YaleNext ==
    Glob \/ Open \/ ReadPgm \/ Close \/ ConvertImage \/ Assign \/ ReturnSubject \/ Scan

YaleSpec == YaleInit /\ [][YaleNext]_vars

\* A call that has a statement to execute executes it: the interpreter does
\* not stop in the middle of a call.
YaleLive == YaleSpec /\ WF_vars(YaleNext)

\* ------------------------------------------------- properties of the images
\* The file that the call has open or has just read.
Current == KindOf(disk, loc.subject, loc.fn)

\* The header of file kind k is the well-formed header P5 / w h / d.
HeaderIs(k, w, h, d) ==
    /\ k.magic = <<"P", "5", "\n">>
    /\ k.size = SizeLine(w, h)
    /\ k.depth = DepthLine(d)

\* C13: for a header P5, W H, max_value <= 255 that at least W*H payload
\* bytes follow, read_pgm returns H rows of W integers, the integer in row r
\* and column c being payload byte r*W + c (counted from 0), and reads exactly
\* W*H payload bytes.
C13_RowMajorRaster ==
    ypc = "close" =>
        \A sz \in Sizes, d \in Depths :
            LET w == sz[1]
                h == sz[2]
                k == Current
            IN  (HeaderIs(k, w, h, d) /\ d <= 255 /\ k.n >= w * h) =>
                    /\ pgm.err = "none"
                    /\ pgm.nread = w * h
                    /\ Len(pgm.raster) = h
                    /\ \A r \in 1..h :
                          /\ Len(pgm.raster[r]) = w
                          /\ \A c \in 1..w :
                                pgm.raster[r][c]
                                    = Payload(k.start, k.n)[(r - 1) * w + (c - 1) + 1]

\* C13: the file P5 / 3 2 / 255 with the bytes 0, 128, 255, 10, 20, 30 has
\* been read as [[0, 128, 255], [10, 20, 30]].
C13_Witness ==
    /\ ypc = "close"
    /\ HeaderIs(Current, 3, 2, 255)
    /\ Payload(Current.start, Current.n) = <<0, 128, 255, 10, 20, 30>>
    /\ pgm.err = "none"
    /\ pgm.raster = <<<<0, 128, 255>>, <<10, 20, 30>>>>

\* The header of file kind k has a first token other than P5, a size or depth
\* line that is no integer text, or a depth above 255.
BadHeader(k) ==
    \/ k.magic = <<"P", "6", "\n">>
    \/ k.size = <<"x", " ", "2", "\n">>
    \/ k.depth = <<"x", "\n">>
    \/ \E d \in Depths : d > 255 /\ k.depth = DepthLine(d)

\* C14: read_pgm raises and returns no raster when the first header token
\* is not P5, when the size line or the depth line holds no integers, or
\* when the depth exceeds 255; it has then read no payload byte, and the call
\* that opened the file ends in the exception.
C14_BadHeaderRaises ==
    /\ (ypc = "close" /\ BadHeader(Current)) =>
            /\ pgm.err \in {"AssertionError", "ValueError"}
            /\ pgm.raster = <<>>
            /\ pgm.nread = 0
    /\ (ypc \in {"convert", "returned"} /\ opened # <<>>
            /\ call.op \in {"read_single_filename", "read_ambient"}) =>
            ~BadHeader(Current)

\* C14: a file whose header declares the depth 256 has been rejected.
C14_Witness ==
    /\ call.op = "read_single_filename"
    /\ ypc = "raised"
    /\ yerr = "AssertionError"
    /\ opened # <<>>
    /\ \E sz \in Sizes : HeaderIs(Current, sz[1], sz[2], 256)
    /\ Current.n >= 6
    /\ pgm.nread = 0

\* C15: every sample of a raster that read_pgm returns lies between 0 and
\* the max_value that the header of the file declares.
C15_SamplesWithinDepth ==
    (ypc = "close" /\ pgm.err = "none") =>
        \A sz \in Sizes, d \in Depths :
            HeaderIs(Current, sz[1], sz[2], d) =>
                \A r \in DOMAIN pgm.raster : \A c \in DOMAIN pgm.raster[r] :
                    0 <= pgm.raster[r][c] /\ pgm.raster[r][c] <= d

\* The call is for one image file.
SingleImage == call.op \in {"read_single_filename", "read_ambient"}

\* C16: with datatype 'float' each sample v is returned as v divided by one
\* constant, the largest value of the sample's storage depth, whatever the
\* header declares; with datatype 'int' each sample is returned unchanged.
C16_FloatDividesByMax ==
    (SingleImage /\ ypc = "returned") =>
        IF call.datatype = "float"
        THEN \E K \in {255, 32767, 65535} :
                \A r \in DOMAIN yresult : \A c \in DOMAIN yresult[r] :
                    yresult[r][c] = Num(pgm.raster[r][c], K)
        ELSE \A r \in DOMAIN yresult : \A c \in DOMAIN yresult[r] :
                yresult[r][c] = IntCell(pgm.raster[r][c])

\* The positions of the image files, the ambient image left out, in the
\* directory of subject nr.
ImagesOf(nr) ==
    LET dir == FilesOf(disk, nr) IN {k \in DOMAIN dir : dir[k].name \in ImageNames}

\* The number of images that an array of read_subject_all holds.
ImageCount(a, datashape) == IF datashape = "matrices" THEN Len(a) ELSE Len(a[1])

\* C17: read_subject_all and read_all never open the ambient image, and the
\* array that read_subject_all returns for a subject holds as many images
\* as the directory holds .pgm files other than the ambient one, each of
\* which has been opened.
C17_AmbientLeftOut ==
    call.op \in {"read_subject_all", "read_all"} =>
        /\ \A k \in DOMAIN opened : opened[k][2] # AmbientName
        /\ (call.op = "read_subject_all" /\ ypc = "returned") =>
              /\ ImageCount(yresult, call.datashape)
                    = Cardinality(ImagesOf(call.nr_subject))
              /\ \A k \in ImagesOf(call.nr_subject) :
                    \E j \in DOMAIN opened :
                        opened[j] = <<call.nr_subject,
                                      FilesOf(disk, call.nr_subject)[k].name>>
        /\ (call.op = "read_all" /\ ypc = "returned") =>
              \A nr \in DOMAIN yresult :
                  ImageCount(yresult[nr], call.datashape) = Cardinality(ImagesOf(nr))

\* C17: read_subject_all has returned two images from a directory that lists
\* the ambient image first.
C17_Witness ==
    /\ call.op = "read_subject_all"
    /\ ypc = "returned"
    /\ Len(FilesOf(disk, 1)) = 3
    /\ FilesOf(disk, 1)[1].name = AmbientName
    /\ ImageCount(yresult, call.datashape) = 2
    /\ Len(opened) = 3

\* The images of subject nr in the order of the directory, each as
\* read_single_filename returns it.
Expected(nr, datatype) ==
    LET dir == FilesOf(disk, nr)
        IsImage(e) == e.name \in ImageNames
        imgs == SelectSeq(dir, IsImage)
    IN  AsSeq([i \in DOMAIN imgs |-> Convert(Decoded[imgs[i].kind].raster, datatype)])

\* C18: the array of datashape 'matrices' holds image i at [i, r, c], the
\* array of datashape 'columns' holds the same value at [r*W + c, i] (r and
\* c counted from 0): M of shape (n, H, W), C of shape (H*W, n).
C18_SameValuesReshaped ==
    (call.op = "read_subject_all" /\ ypc = "returned") =>
        \A e \in {Expected(call.nr_subject, call.datatype)} :
            LET n == Len(e)
                H == Len(e[1])
                W == Len(e[1][1])
            IN  IF call.datashape = "matrices"
                THEN /\ Len(yresult) = n
                     /\ \A i \in 1..n :
                           /\ Len(yresult[i]) = H
                           /\ \A r \in 1..H :
                                 /\ Len(yresult[i][r]) = W
                                 /\ \A c \in 1..W : yresult[i][r][c] = e[i][r][c]
                ELSE /\ Len(yresult) = H * W
                     /\ \A p \in 1..(H * W) : Len(yresult[p]) = n
                     /\ \A i \in 1..n : \A r \in 1..H : \A c \in 1..W :
                           yresult[(r - 1) * W + (c - 1) + 1][i] = e[i][r][c]

\* C18: read_subject_all has returned three images of two rows and two
\* columns as an array of four rows and three columns.
C18_Witness ==
    /\ call.op = "read_subject_all"
    /\ call.datashape = "columns"
    /\ ypc = "returned"
    /\ Len(yresult) = 4
    /\ Len(yresult[1]) = 3
    /\ yresult[2][1] # yresult[3][1]

\* C19: when a call has returned or raised, no image file is open; at most
\* one image file is open at any time.
C19_HandlesReleased ==
    /\ ypc \in {"returned", "raised"} => handles = {}
    /\ Cardinality(handles) <= 1
    /\ ypc \in {"read_pgm", "close"} <=> handles # {}

\* C19: read_all has raised on a file that is cut short, after it had read
\* another file, and no file is open.
C19_Witness ==
    /\ call.op = "read_all"
    /\ ypc = "raised"
    /\ yerr = "TypeError"
    /\ Len(opened) >= 2
    /\ handles = {}

\* C20: when fewer than width*height payload bytes follow a well-formed
\* header, read_pgm raises and returns no raster; no call returns an image
\* of such a file.
C20_NoTruncatedRaster ==
    \A sz \in Sizes, d \in Depths :
        /\ (ypc = "close" /\ HeaderIs(Current, sz[1], sz[2], d) /\ d <= 255
                /\ Current.n < sz[1] * sz[2]) =>
              /\ pgm.err = "TypeError"
              /\ pgm.raster = <<>>
        /\ (ypc \in {"convert", "assign", "returned"} /\ opened # <<>>
                /\ HeaderIs(Current, sz[1], sz[2], d)) =>
              Current.n >= sz[1] * sz[2]

\* C20: read_single_filename has raised on a file whose header asks for
\* 3 * 2 bytes and whose payload holds 5.
C20_Witness ==
    /\ call.op = "read_single_filename"
    /\ ypc = "raised"
    /\ yerr = "TypeError"
    /\ opened # <<>>
    /\ HeaderIs(Current, 3, 2, 255)
    /\ Current.n = 5
    /\ pgm.nread = 5

\* ------------------------------------------- properties of the tables, II
\* A line of the Ames file that the filters retain as they are documented:
\* the samples with a gross living area above 4000 sqft are removed.
AmesDocumented(r) ==
    /\ args.remove_GrLivArea_outliers =>
          LET c == FloatOf(r[GrLivAreaAt].s) IN c.n <= GrLivAreaLimit * c.d
    /\ args.normal_sales_only => r[SaleConditionAt].s = <<"N", "o", "r", "m", "a", "l">>

\* C23: with remove_GrLivArea_outliers the outlier filter of AmesHousing
\* removes the rows whose GrLivArea exceeds 4000 and no other: a row with
\* GrLivArea 4000 is retained, a row with 4001 is removed; without the option
\* no row is removed on account of GrLivArea.
C23_OutliersAbove4000 ==
    (handler = Ames /\ pc = "select") =>
        LET kept == SelectSeq(SourceRows, AmesDocumented)
        IN  /\ NRows(data) = Len(kept)
            /\ \A i \in 1..Len(kept) :
                  data.rows[i][GrLivAreaAt] = ParseField(kept[i][GrLivAreaAt].s)

\* C24: every table that a read_all returns is rectangular and holds numbers
\* only: each row has one cell per column, and no cell is a text.
C24_NumericTable ==
    pc = "returned" =>
        \A i \in 1..NRows(data) :
            /\ Len(data.rows[i]) = NCols(data)
            /\ \A j \in 1..NCols(data) : IsNumeric(data.rows[i][j])

\* The place in a source line of the field that column j of the table holds.
SourceColumn(j) ==
    IF handler = AutoMPG /\ args.features = "continuous" THEN <<2, 3, 4, 5, 8>>[j]
    ELSE IndexOf(SourceNames, data.cols[j])

\* C25: in the handlers that filter rows the scaling step comes after the
\* filters and no filter comes after it; the table it scales holds the
\* retained rows only, and the minimum and maximum (MinMax) or the mean and
\* standard deviation (MeanVar) of each column but the last are those of the
\* retained rows: their minimum becomes -1 and their maximum 1, or their
\* scaled values have mean 0 and variance 1.
C25_StatsAfterFilters ==
    /\ [](handler \in HasFilter =>
             \A i \in DOMAIN trace :
                 trace[i] = "scale" =>
                     /\ \E k \in 1..(i - 1) : trace[k] = "filter"
                     /\ \A k \in (i + 1)..Len(trace) : trace[k] # "filter")
    /\ [][(handler \in HasFilter /\ pc = "scale" /\ pc' = "return"
             /\ args.scaling \in {"MinMax", "MeanVar"}) =>
             \A new \in {data'} :
                 /\ NRows(new) = NRows(data)
                 /\ handler \in RowFiltering =>
                       LET kept == SelectSeq(SourceRows, Passes)
                       IN  /\ NRows(data) = Len(kept)
                           /\ \A j \in 1..(NCols(data) - 1) : \A i \in 1..Len(kept) :
                                 AsFloat(data.rows[i][j]) = FloatOf(kept[i][SourceColumn(j)].s)
                 /\ \A j \in 1..(NCols(data) - 1) :
                       LET col == FloatColumn(data, j)
                           out == ColumnAt(new, j)
                       IN  (\E i \in DOMAIN col : col[i] # col[1]) =>
                             IF args.scaling = "MinMax"
                             THEN /\ \E i \in DOMAIN col :
                                        /\ \A e \in Range(col) : ~Less(e, col[i])
                                        /\ out[i] = IntCell(-1)
                                  /\ \E i \in DOMAIN col :
                                        /\ \A e \in Range(col) : ~Less(col[i], e)
                                        /\ out[i] = IntCell(1)
                             ELSE /\ SumSeq(AsSeq([i \in DOMAIN out |-> out[i].n])) = 0
                                  /\ SumSeq(AsSeq([i \in DOMAIN out |-> out[i].n * out[i].n]))
                                        = Len(out) * out[1].d]_vars

\* C25: AutoMPG has scaled the two rows that are left of three, the second
\* row holding '?' as its horsepower: the retained rows have become -1 and 1.
C25_Witness ==
    /\ handler = AutoMPG
    /\ pc = "return"
    /\ args.scaling = "MinMax"
    /\ trace = <<"read", "filter", "select", "scale">>
    /\ Len(SourceRows) = 3
    /\ SourceRows[2][HorsepowerAt].s = <<"?">>
    /\ NRows(data) = 2
    /\ ColumnAt(data, 1) = <<IntCell(-1), IntCell(1)>>

\* C26: handler_UCI_SkillCraft.read_all with a to_predict that names a column
\* of the source gets past the selection with to_predict as the last column
\* and with none of GameID, LeagueIndex, TotalHours among the columns other
\* than to_predict itself; with a to_predict that names no column the
\* selection raises, and no table is returned.
C26_SkillCraftTarget ==
    LET named == \E j \in DOMAIN Header(SkillCraft) : Header(SkillCraft)[j] = args.to_predict
    IN  handler = SkillCraft =>
            /\ pc \in {"scale", "return", "returned"} =>
                  /\ named
                  /\ Last(data.cols) = args.to_predict
                  /\ \A j \in DOMAIN data.cols :
                        data.cols[j] \in Range(exclude_features) =>
                            data.cols[j] = args.to_predict /\ j = NCols(data)
                  /\ \A j \in DOMAIN Header(SkillCraft) :
                        Header(SkillCraft)[j] \notin Range(exclude_features) =>
                            Header(SkillCraft)[j] \in Range(data.cols)
            /\ (named /\ pc = "raised") => Last(trace) # "select"
            /\ (~named /\ trace # <<>> /\ Last(trace) = "select") =>
                  pc = "raised" /\ err = "ValueError" /\ result = "none"
            /\ (~named /\ trace # <<>>) => Last(trace) \in {"read", "filter", "select"}

\* C26: a table of three rows has been returned with GameID, an excluded
\* feature, as the target in the last of its 18 columns.
C26_Witness ==
    /\ handler = SkillCraft
    /\ pc = "returned"
    /\ args.to_predict = "GameID"
    /\ args.scaling = "None"
    /\ Last(data.cols) = "GameID"
    /\ NCols(data) = Len(Header(SkillCraft)) - 2
    /\ NRows(data) = 3
    /\ Last(data.rows[3]) = FloatOf(SourceRows[3][1].s)

\* C27: handler_UCI_Parkinsons.read_all with predict 'motor_UPDRS' or
\* 'total_UPDRS' gets past the selection with 17 columns, the 16 voice
\* measures Jitter1..PPE in the order of the source followed by predict;
\* subject_nr, age, sex, test_time and the other score are no columns; any
\* other predict raises RuntimeError and nothing is returned.
C27_ParkinsonsColumns ==
    handler = Parkinsons =>
        /\ pc \in {"scale", "return", "returned"} =>
              /\ args.predict \in {"motor_UPDRS", "total_UPDRS"}
              /\ NCols(data) = 17
              /\ \A j \in 1..16 : data.cols[j] = column_names[6 + j]
              /\ data.cols[17] = args.predict
              /\ \A i \in 1..NRows(data) :
                    /\ Len(data.rows[i]) = 17
                    /\ "scale" \notin Range(trace) =>
                          \A j \in 1..16 :
                              data.rows[i][j] = ParseField(SourceRows[i][6 + j].s)
                    /\ data.rows[i][17]
                          = ParseField(SourceRows[i][IndexOf(column_names, args.predict)].s)
        /\ (args.predict \notin {"motor_UPDRS", "total_UPDRS"} /\ Len(trace) >= 2) =>
              pc = "raised" /\ err = "RuntimeError" /\ result = "none"

\* C27: a table of two rows has been returned with total_UPDRS as the last
\* of 17 columns, the first being Jitter1.
C27_Witness ==
    /\ handler = Parkinsons
    /\ pc = "returned"
    /\ args.predict = "total_UPDRS"
    /\ NRows(data) = 2
    /\ NCols(data) = 17
    /\ data.cols[1] = "Jitter1"
    /\ args.scaling = "None"
    /\ data.rows[2][17] = FloatOf(SourceRows[2][6].s)

\* --------------------------------------------- properties of the images, II
\* The whitespace-delimited items of the header of file kind k.
HeaderTokens(k) == split(Encode(k.magic \o k.size \o k.depth))

\* C28: for every header whose items P5, W, H and max_value <= 255 are
\* delimited by spaces or newlines, and that at least W*H payload bytes
\* follow, read_pgm returns the grid of H rows and W columns that it returns
\* for the layout of one item per line.
C28_AnyHeaderLayout ==
    ypc = "close" =>
        LET k    == Current
            toks == HeaderTokens(k)
        IN  (/\ Len(toks) = 4
             /\ toks[1] = Encode(<<"P", "5">>)
             /\ \A i \in 2..4 : IsIntText(toks[i])
             /\ int(toks[4]) <= 255
             /\ k.n >= int(toks[2]) * int(toks[3])) =>
                LET W == int(toks[2])
                    H == int(toks[3])
                IN  /\ pgm.err = "none"
                    /\ Len(pgm.raster) = H
                    /\ \A r \in 1..H :
                          /\ Len(pgm.raster[r]) = W
                          /\ \A c \in 1..W :
                                pgm.raster[r][c]
                                    = Payload(k.start, k.n)[(r - 1) * W + (c - 1) + 1]

\* The subjects whose directory the disk holds.
SubjectDirs == {nr \in Subjects : isdir(disk, nr)}

\* C22: when until_subject exceeds the number of subject directories of the
\* database, read_all returns a dictionary whose keys are all the subjects
\* present, as it does for every larger until_subject.
C22_UntilSubjectBeyondCount ==
    (call.op = "read_all" /\ ypc = "returned"
        /\ call.until_subject > Cardinality(SubjectDirs)) =>
        DOMAIN yresult = SubjectDirs

\* Every image file of subject nr, the ambient image left out, can be
\* decoded, and there is at least one.
Loadable(nr) ==
    /\ ImagesOf(nr) # {}
    /\ \A k \in ImagesOf(nr) : Decoded[FilesOf(disk, nr)[k].kind].err = "none"

\* C29: read_subject_all and read_all return no partial result.  A decoding
\* that fails ends the call in its exception at once, and a call that has
\* raised has returned nothing; read_subject_all returns only for a datashape
\* 'matrices' or 'columns' and a subject all of whose images can be decoded,
\* of which there is at least one, and read_all returns only when that holds
\* of every subject it has come to.
C29_NoPartialBatch ==
    /\ [](call.op \in {"read_subject_all", "read_all"} =>
             /\ ypc = "raised" => yresult = <<>> /\ yerr # "none"
             /\ (call.op = "read_subject_all" /\ ypc = "returned") =>
                   /\ call.datashape \in {"matrices", "columns"}
                   /\ Loadable(call.nr_subject)
                   /\ ImageCount(yresult, call.datashape)
                         = Cardinality(ImagesOf(call.nr_subject))
             /\ (call.op = "read_all" /\ ypc = "returned") =>
                   \A nr \in SubjectDirs :
                       nr < loc.counter =>
                           /\ nr \in DOMAIN yresult
                           /\ Loadable(nr)
                           /\ ImageCount(yresult[nr], call.datashape)
                                 = Cardinality(ImagesOf(nr)))
    /\ [][(call.op \in {"read_subject_all", "read_all"} /\ ypc = "close"
             /\ pgm.err # "none") =>
             (ypc' = "raised" /\ yerr' = pgm.err /\ yresult' = <<>>)]_vars

\* C29: read_all has raised on an image that is cut short after it had
\* loaded another subject, and has returned nothing.
C29_Witness ==
    /\ call.op = "read_all"
    /\ ypc = "raised"
    /\ yerr = "TypeError"
    /\ DOMAIN loc.retr # {}
    /\ loc.counter > 1
    /\ yresult = <<>>

\* C30: the loop of read_all ends, after at most until_subject passes,
\* whatever the listing holds: list.remove never raises, and the keys of the
\* dictionary returned are the numbers up to the last one examined whose
\* directory exists.
C30_ScanTerminates ==
    /\ [](call.op = "read_all" =>
             /\ loc.counter <= call.until_subject + 1
             /\ yerr # "ValueError"
             /\ ypc = "returned" =>
                   DOMAIN yresult = {k \in 1..(loc.counter - 1) : isdir(disk, k)})
    /\ <>(ypc \in {"returned", "raised"})

\* C30: read_all has returned the third subject after until_subject = 3
\* passes, the first number being a plain file that stays in the pending
\* list and the second number having no entry.
C30_Witness ==
    /\ call.op = "read_all"
    /\ call.until_subject = 3
    /\ ypc = "returned"
    /\ disk[1] = PlainFile
    /\ disk[2] = Absent
    /\ loc.subject_dirs = {1}
    /\ loc.counter = 4
    /\ DOMAIN yresult = {3}

\* ================================================================ sessions
\* One interpreter makes several calls of the loaders, one after the other.
\* What a call can leave behind for the next is the module-level state of
\* the handler modules: the lists below.  A call is taken as one step, from
\* its first statement to its return or its exception.

\* Largest number of calls of a session.
MaxCalls == 3

\* The first statement(s) of read_all with the module-level lists as L:
\* handler_Ozone passes __NAN_rows__ as skiprows.
ReadWith(h, fs, L) ==
    IF h = Ozone THEN read_csv(SkipRows(fs[1], L.NAN_rows)) ELSE ReadSource(h, fs)

\* The loop `for feature in __exclude_features__` over the list as it is.
RECURSIVE DropListed(_, _, _, _)
DropListed(df, to_predict, features, k) ==
    IF k > Len(features) THEN df
    ELSE IF features[k] = to_predict THEN DropListed(df, to_predict, features, k + 1)
    ELSE DropListed(DelCol(df, features[k]), to_predict, features, k + 1)

\* The column selection of read_all with the module-level lists as L:
\* handler_AmesHousing indexes with __idx_numerical_features__ or
\* __idx_intuitive_features__, handler_UCI_SkillCraft loops over
\* __exclude_features__.
SelectWith(h, df, a, L) ==
    IF h = Ames
    THEN Ok(IF a.feature_subset = "numerical" THEN SelectCols(df, L.idx_numerical_features)
            ELSE IF a.feature_subset = "intuitive"
              THEN SelectCols(df, L.idx_intuitive_features)
            ELSE df)
    ELSE IF h = SkillCraft
    THEN LET i == IndexOf(df.cols, a.to_predict)
         IN  IF i = 0 THEN Raised("ValueError")
             ELSE Ok(DropListed(SelectCols(df, MoveLast(df.cols, i)), a.to_predict,
                                L.exclude_features, 1))
    ELSE SelectColumns(h, df, a)

\* The row filter of read_all applied to what the reading left.
AfterFilter(h, a, r) == IF h \in HasFilter THEN FilterRows(h, r.df, a) ELSE r

\* The column selection of read_all applied to what the filter left.
AfterSelect(h, a, L, r) ==
    IF r.err = "none" /\ h \in HasSelect THEN SelectWith(h, r.df, a, L) ELSE r

\* The scaling of read_all applied to what the selection left.
AfterScaling(a, r) ==
    IF r.err = "none" /\ a.scaling \in {"MinMax", "MeanVar"}
    THEN IF ScalerAccepts(r.df, Front(r.df.cols))
         THEN Ok(ApplyScaling(r.df, r.df.cols, a.scaling))
         ELSE Raised("ValueError")
    ELSE r

\* The return statements of read_all applied to what the scaling left.
AfterReturn(h, a, r) ==
    IF r.err # "none" THEN [err |-> r.err, out |-> EmptyFrame, as |-> "none"]
    ELSE IF a.return_type = "np" THEN [err |-> "none", out |-> r.df, as |-> "np"]
    ELSE IF a.return_type = "pd" /\ h \in PdHandlers
      THEN [err |-> "none", out |-> r.df, as |-> "pd"]
    ELSE [err |-> "RuntimeError", out |-> EmptyFrame, as |-> "none"]

\* read_all of handler h from its first statement to its last: the table it
\* returns and how, or the exception it raises.
read_all(h, a, fs, L) ==
    AfterReturn(h, a, AfterScaling(a, AfterSelect(h, a, L, AfterFilter(h, a, Ok(ReadWith(h, fs, L))))))

\* The module-level lists with __exclude_features__ used up by the loop.
ListsUsedUp(h, L) == IF h = SkillCraft THEN [L EXCEPT !.exclude_features = <<>>] ELSE L

\* The module-level lists after a read_all of handler h: no statement of a
\* read_all assigns to a module-level name, and none appends to, removes
\* from or sorts a module-level list.
ListsAfter(h, L) == L

\* The loop of read_subject_all over the files, from the i-th on.
RECURSIVE StoreFrom(_, _, _, _)
StoreFrom(d, images, i, datashape) ==
    IF i > Len(images) THEN d
    ELSE StoreFrom(Store(d, i, images[i], datashape), images, i + 1, datashape)

\* read_subject_all from its first statement to its last: the array it
\* returns or the exception it raises.
read_subject_all(d, nr, datashape, datatype) ==
    LET dir    == FilesOf(d, nr)
        names  == AsSeq([k \in DOMAIN dir |-> dir[k].name])
        kept   == SelectSeq(SelectSeq(names, MatchesPgm), NotAmbient)
        read   == AsSeq([i \in DOMAIN kept |-> Decoded[KindOf(d, nr, kept[i])]])
        bad    == {i \in DOMAIN read : read[i].err # "none"}
        images == AsSeq([i \in DOMAIN read |-> Convert(read[i].raster, datatype)])
        Fail(e) == [err |-> e, out |-> <<>>]
    IN  IF kept = <<>> THEN Fail("IndexError")
        ELSE IF 1 \in bad THEN Fail(read[1].err)
        ELSE IF datashape \notin {"matrices", "columns"} THEN Fail("UnboundLocalError")
        ELSE IF bad # {} THEN Fail(read[CHOOSE i \in bad : \A j \in bad : i <= j].err)
        ELSE [err |-> "none",
              out |-> StoreFrom(Zeros(datashape, Len(kept), images[1]), images, 1,
                                datashape)]

\* The arguments and source files of the calls of a session.
SessionSources(h) ==
    IF h = Ozone
    THEN {<<<<<<0, FALSE>>, <<1, FALSE>>, <<2, FALSE>>, <<0, FALSE>>, <<1, FALSE>>,
              <<2, FALSE>>>>>>}
    ELSE IF h = SkillCraft
    THEN {<<<<<<0, FALSE>>, <<1, FALSE>>>>>>}
    ELSE {<<<<<<0, FALSE>>, <<0, FALSE>>>>>>}

SessionArgs(h) ==
    {a \in Args(h) :
        /\ a.return_type = "np"
        /\ a.scaling \in {"None", "MinMax"}
        /\ a.to_predict \in {"APM", "TotalHours"}
        /\ a.feature_subset \in {"all", "numerical"}
        /\ a.normal_sales_only /\ a.remove_GrLivArea_outliers}

TableCalls ==
    UNION {{[handler |-> h, args |-> a, source |-> src] :
               a \in SessionArgs(h), src \in SessionSources(h)} :
              h \in {Ames, Ozone, SkillCraft}}

ImageCalls ==
    {k \in PgmKinds :
        /\ k.magic \in {<<"P", "5", "\n">>, <<"P", "6", "\n">>}
        /\ k.size = SizeLine(3, 2)
        /\ k.depth = DepthLine(255)
        /\ k.start = 0
        /\ k.n \in {5, 6}}

SubjectCalls ==
    [nr_subject : {1}, datashape : {"columns", "matrices"}, datatype : {"float"},
     disk : {[s \in Subjects |-> IF s = 1 THEN Present(q) ELSE Absent] :
                q \in {r \in DatabaseDirectories(2) :
                          /\ \A i \in DOMAIN r : r[i].name # AmbientName
                          /\ Len(r) = 2 => r[1].name = <<"a", ".", "p", "g", "m">>}}]

\* read_all of every call of a session with the lists as the import leaves
\* them.
Loaded == [c \in TableCalls |->
              read_all(c.handler, c.args, Files(c.handler, c.source), ModuleLists)] @@ <<>>

SessionInit ==
    /\ NoTableCall
    /\ NoImageCall
    /\ NoSession

\* A call of a tabular read_all.
LoadTable ==
    /\ Len(session) < MaxCalls
    /\ \E c \in TableCalls :
          /\ session' = Append(session,
                 [op |-> "read_all", call |-> c,
                  out |-> IF lists = ModuleLists THEN Loaded[c]
                          ELSE read_all(c.handler, c.args, Files(c.handler, c.source),
                                        lists)])
          /\ lists' = ListsAfter(c.handler, lists)
    /\ UNCHANGED <<tvars, yvars>>

\* A call of read_pgm on an open image file.
DecodeImage ==
    /\ Len(session) < MaxCalls
    /\ \E k \in ImageCalls :
          session' = Append(session, [op |-> "read_pgm", call |-> k, out |-> Decoded[k]])
    /\ UNCHANGED lists
    /\ UNCHANGED <<tvars, yvars>>

\* A call of read_subject_all.
LoadSubject ==
    /\ Len(session) < MaxCalls
    /\ \E c \in SubjectCalls :
          session' = Append(session,
              [op |-> "read_subject_all", call |-> c,
               out |-> read_subject_all(c.disk, c.nr_subject, c.datashape, c.datatype)])
    /\ UNCHANGED lists
    /\ UNCHANGED <<tvars, yvars>>

SessionNext == LoadTable \/ DecodeImage \/ LoadSubject

SessionSpec == SessionInit /\ [][SessionNext]_vars

====
